---- MODULE Spec2Model ----
(***************************************************************************)
(* Model of the JSON Maker of color-server (src/json-maker.ts): the schema *)
(* store with its cache, the type classifier, the recursive structural     *)
(* validator and the file-level validation built on them.                  *)
(*                                                                         *)
(* Conventions of the model                                                *)
(*  - An optional key of a JavaScript object is a sequence: <<>> when the  *)
(*    key is absent (undefined), <<x>> when it is present with value x.    *)
(*  - A number is kept as twice its value, so that 0.5 is twice = 1 and    *)
(*    Number.isInteger is "twice is even".                                 *)
(*  - A violation's message is its fixed text, without the interpolated    *)
(*    parameters.                                                          *)
(*  - A call either returns or throws: an outcome is [ok |-> TRUE, ...] or *)
(*    [ok |-> FALSE, error |-> <name of the JavaScript error>].            *)
(***************************************************************************)
EXTENDS Integers, Sequences, FiniteSets, TLC

VARIABLES
    argValue,     \* validateValue: the candidate value
    argSchema,    \* validateValue: the schema node
    argPath,      \* validateValue: the path of the node
    argErrors,    \* validateValue: the caller's violation list at the call
    outcome,      \* validateValue: <<>> before the call, <<its outcome>> after
    removed,      \* validateValue: <<k>> once key k was removed from the value
    actualType,   \* getType: <<>> before the call, <<its result>> after
    template,     \* generateFromSchema: <<>> before the call, <<its outcome>> after
    files,        \* the file system: path -> content
    schemaCache,  \* JsonMaker.schemaCache of each JsonMaker instance
    call,         \* the last public call made
    loading,      \* loadFromFile in progress: <<>>, or <<what it holds after validateFile>>
    result        \* the outcome of the last public call

vars == <<argValue, argSchema, argPath, argErrors, outcome, removed, actualType, template, files, schemaCache, call, result, loading>>
pureVars == <<argValue, argSchema, argPath, argErrors, outcome, removed, actualType, template>>
sysVars == <<files, schemaCache, call, result, loading>>

----------------------------------------------------------------------------
(* Runtime values (the `unknown` the validator receives).                  *)

JNull == [kind |-> "null"]
JUndefined == [kind |-> "undefined"]
JBool(b) == [kind |-> "boolean", b |-> b]
JNum(twice) == [kind |-> "number", twice |-> twice]
JStr(s) == [kind |-> "string", s |-> s]
JArr(elems) == [kind |-> "array", elems |-> elems]
JObj(fields) == [kind |-> "object", fields |-> fields]
\* a value that is no JSON data: a function
JFunction == [kind |-> "function"]
Field(k, v) == [key |-> k, val |-> v]

\* JavaScript's typeof
TypeOf(v) ==
    IF v.kind \in {"null", "array", "object"} THEN "object" ELSE v.kind

\* Number.isInteger
IsInteger(v) == v.kind = "number" /\ v.twice % 2 = 0

\* `key in obj` for an object whose own keys are its fields
HasKey(obj, k) == \E i \in 1..Len(obj.fields) : obj.fields[i].key = k

\* obj[key]
Get(obj, k) ==
    LET i == CHOOSE j \in 1..Len(obj.fields) : obj.fields[j].key = k
    IN obj.fields[i].val

\* value.length of a string
StrLength(v) == Len(v.s)

----------------------------------------------------------------------------
(* Schema nodes (JsonSchemaProperty | JsonSchema).                         *)

\* A decoded node with no keys: {}
EmptyNode ==
    [shape |-> "mapping",
     ref |-> <<>>, oneOf |-> <<>>, anyOf |-> <<>>, allOf |-> <<>>,
     type |-> <<>>, enum |-> <<>>, pattern |-> <<>>,
     minimum |-> <<>>, maximum |-> <<>>,
     minLength |-> <<>>, maxLength |-> <<>>,
     required |-> <<>>, properties |-> <<>>, items |-> <<>>,
     default |-> <<>>, additionalProperties |-> <<>>]

\* A decoded "node" that is the JSON null: reading a key of it is a TypeError
NullNode == [EmptyNode EXCEPT !.shape = "null"]

\* type: "t" and type: ["t1", "t2"]
SingleType(t) == <<[isArray |-> FALSE, tags |-> <<t>>]>>
TypeList(ts) == <<[isArray |-> TRUE, tags |-> ts]>>

Prop(k, node) == [key |-> k, node |-> node]

Ok(errs) == [ok |-> TRUE, errors |-> errs]
Throw(e) == [ok |-> FALSE, error |-> e]

\* { path, message, value } and { path, message }
Violation(p, msg, v) == [path |-> p, message |-> msg, value |-> v]
ViolationNoValue(p, msg) == [path |-> p, message |-> msg]

----------------------------------------------------------------------------
(* The type classifier and the structural validator.                       *)

MsgOneOf == "Value must match exactly one of the oneOf schemas"
MsgAnyOf == "Value must match at least one of the anyOf schemas"
MsgType == "Expected type"
MsgEnum == "Value must be one of"
MsgPattern == "Value does not match pattern"
MsgMinimum == "Value must be >="
MsgMaximum == "Value must be <="
MsgMinLength == "String length must be >="
MsgMaxLength == "String length must be <="
MsgRequired == "Required field missing"

\* a variant that does not tell integers from other numbers
getTypeOf(value) ==
    IF value.kind = "null" THEN "null"
    ELSE IF value.kind = "array" THEN "array"
    ELSE TypeOf(value)

getType(value) ==
    IF value.kind = "null" THEN "null"
    ELSE IF value.kind = "array" THEN "array"
    ELSE IF value.kind = "number" /\ IsInteger(value) THEN "integer"
    ELSE TypeOf(value)

\* types.includes(actualType)
Includes(seq, x) == \E i \in 1..Len(seq) : seq[i] = x

\* a variant that honours $ref only on a node that declares no type
HasRefUntyped(schema) ==
    schema.ref # <<>> /\ schema.ref[1] # "" /\ schema.type = <<>>

\* if (schema.$ref): an empty string is falsy
HasRef(schema) == schema.ref # <<>> /\ schema.ref[1] # ""

\* if (schemaType): an array is truthy, an empty string is falsy
HasType(schema) ==
    /\ schema.type # <<>>
    /\ (schema.type[1].isArray \/ schema.type[1].tags[1] # "")

\* Array.isArray(schemaType) ? schemaType : [schemaType]
TypesOf(schema) == schema.type[1].tags

\* a variant that lets null pass every declared type
TypeMismatchNullable(value, schema) ==
    /\ HasType(schema)
    /\ value.kind # "null"
    /\ ~Includes(TypesOf(schema), getType(value))

\* the type check fails: !types.includes(actualType)
\* a variant in which the tag "number" also admits the integers
TypeMismatchNumberAdmitsInteger(value, schema) ==
    /\ HasType(schema)
    /\ ~Includes(TypesOf(schema), getType(value))
    /\ ~(getType(value) = "integer" /\ Includes(TypesOf(schema), "number"))

\* a variant that also holds the value to the types of the allOf members
TypeMismatchOrAllOf(value, schema) ==
    \/ HasType(schema) /\ ~Includes(TypesOf(schema), getType(value))
    \/ /\ schema.allOf # <<>>
       /\ \E i \in 1..Len(schema.allOf[1]) :
             /\ schema.allOf[1][i].shape = "mapping"
             /\ HasType(schema.allOf[1][i])
             /\ ~Includes(TypesOf(schema.allOf[1][i]), getType(value))

TypeMismatch(value, schema) ==
    HasType(schema) /\ ~Includes(TypesOf(schema), getType(value))

\* schemaType === "object", schemaType === "array"
TypeIs(schema, tag) ==
    /\ schema.type # <<>>
    /\ ~schema.type[1].isArray
    /\ schema.type[1].tags[1] = tag

\* schema.enum.includes(value): SameValueZero, so a primitive equals an equal
\* primitive and an object or array equals no decoded literal
\* a variant that compares objects and arrays by their contents
EnumIncludesDeep(enum, value) == Includes(enum, value)

EnumIncludes(enum, value) ==
    /\ value.kind \notin {"object", "array"}
    /\ Includes(enum, value)

EnumErrors(value, schema, path) ==
    IF schema.enum # <<>> /\ ~EnumIncludes(schema.enum[1], value)
    THEN <<Violation(path, MsgEnum, value)>>
    ELSE <<>>

\* The regular expressions of the model: "^a" and the uncompilable "("
InvalidPatterns == {"("}
RegExpCompiles(pattern) == pattern \notin InvalidPatterns
RegExpTest(pattern, s) ==
    CASE pattern = "^a" -> s \in {"a", "abc"}
      [] OTHER -> TRUE

\* if (schema.pattern && typeof value === "string")
PatternApplies(value, schema) ==
    /\ schema.pattern # <<>>
    /\ schema.pattern[1] # ""
    /\ TypeOf(value) = "string"

\* new RegExp(schema.pattern) throws a SyntaxError
PatternThrows(value, schema) ==
    PatternApplies(value, schema) /\ ~RegExpCompiles(schema.pattern[1])

PatternErrors(value, schema, path) ==
    IF PatternApplies(value, schema) /\ ~RegExpTest(schema.pattern[1], value.s)
    THEN <<Violation(path, MsgPattern, value)>>
    ELSE <<>>

\* a variant that takes a bound of 0 for no bound
BelowMinimumTruthy(value, schema) ==
    /\ schema.minimum # <<>>
    /\ schema.minimum[1] # 0
    /\ value.twice < schema.minimum[1]

BelowMinimum(value, schema) ==
    schema.minimum # <<>> /\ value.twice < schema.minimum[1]

AboveMaximum(value, schema) ==
    schema.maximum # <<>> /\ value.twice > schema.maximum[1]

RangeErrors(value, schema, path) ==
    IF TypeOf(value) = "number"
    THEN (IF BelowMinimum(value, schema)
          THEN <<Violation(path, MsgMinimum, value)>> ELSE <<>>)
         \o
         (IF AboveMaximum(value, schema)
          THEN <<Violation(path, MsgMaximum, value)>> ELSE <<>>)
    ELSE <<>>

LengthErrors(value, schema, path) ==
    IF TypeOf(value) = "string"
    THEN (IF schema.minLength # <<>> /\ StrLength(value) < schema.minLength[1]
          THEN <<Violation(path, MsgMinLength, value)>> ELSE <<>>)
         \o
         (IF schema.maxLength # <<>> /\ StrLength(value) > schema.maxLength[1]
          THEN <<Violation(path, MsgMaxLength, value)>> ELSE <<>>)
    ELSE <<>>

\* path ? `${path}.${key}` : key
PropertyPath(path, key) == IF path # "" THEN path \o "." \o key ELSE key

\* a variant that counts the elements from one
ItemPathOneBased(path, index) == path \o "[" \o ToString(index + 1) \o "]"

\* `${path}[${index}]`
ItemPath(path, index) == path \o "[" \o ToString(index) \o "]"

\* for (const field of schema.required) if (!(field in obj)) errors.push(...)
RECURSIVE RequiredFrom(_, _, _, _)
RequiredFrom(obj, required, i, path) ==
    IF i > Len(required) THEN <<>>
    ELSE (IF ~HasKey(obj, required[i])
          THEN <<ViolationNoValue(PropertyPath(path, required[i]), MsgRequired)>>
          ELSE <<>>)
         \o RequiredFrom(obj, required, i + 1, path)

RequiredErrors(obj, schema, path) ==
    IF schema.required # <<>>
    THEN RequiredFrom(obj, schema.required[1], 1, path)
    ELSE <<>>

\* a variant that fails only when no alternative matches
OneOfFailsWhenNone(validCount) == validCount = 0

\* if (validCount !== 1)
OneOfFails(validCount) == validCount # 1

\* schemaType === "object" && typeof value === "object" && value !== null
\* (an array never gets here: its classified type is "array")
ObjectDescent(value, schema) ==
    TypeIs(schema, "object") /\ value.kind = "object"

\* schemaType === "array" && Array.isArray(value), then if (schema.items)
ArrayDescent(value, schema) ==
    /\ TypeIs(schema, "array")
    /\ value.kind = "array"
    /\ schema.items # <<>>
    /\ schema.items[1].shape # "null"

RECURSIVE validateValue(_, _, _, _)
RECURSIVE ProbeAll(_, _, _, _)
RECURSIVE AnyOfSome(_, _, _, _)
RECURSIVE validateProperties(_, _, _, _, _)
RECURSIVE validateItems(_, _, _, _, _)
RECURSIVE validateObject(_, _, _, _)

\* schema.oneOf.filter(...): every alternative is probed, in order, into a
\* fresh list; the outcome is the number of alternatives with no violation,
\* or the first exception.
ProbeAll(value, alts, i, path) ==
    IF i > Len(alts) THEN [ok |-> TRUE, validCount |-> 0]
    ELSE LET sub == validateValue(value, alts[i], path, <<>>)
         IN IF ~sub.ok THEN sub
            ELSE LET rest == ProbeAll(value, alts, i + 1, path)
                 IN IF ~rest.ok THEN rest
                    ELSE [ok |-> TRUE,
                          validCount |-> rest.validCount
                                         + (IF sub.errors = <<>> THEN 1 ELSE 0)]

\* a variant that asks every alternative to match (every for some)
RECURSIVE AnyOfEvery(_, _, _, _)
AnyOfEvery(value, alts, i, path) ==
    IF i > Len(alts) THEN [ok |-> TRUE, isValid |-> TRUE]
    ELSE LET sub == validateValue(value, alts[i], path, <<>>)
         IN IF ~sub.ok THEN sub
            ELSE IF sub.errors # <<>> THEN [ok |-> TRUE, isValid |-> FALSE]
            ELSE AnyOfEvery(value, alts, i + 1, path)

\* schema.anyOf.some(...): the alternatives are probed in order up to the
\* first one with no violation.
AnyOfSome(value, alts, i, path) ==
    IF i > Len(alts) THEN [ok |-> TRUE, isValid |-> FALSE]
    ELSE LET sub == validateValue(value, alts[i], path, <<>>)
         IN IF ~sub.ok THEN sub
            ELSE IF sub.errors = <<>> THEN [ok |-> TRUE, isValid |-> TRUE]
            ELSE AnyOfSome(value, alts, i + 1, path)

\* a variant that validates every declared property, an absent one as
\* undefined
RECURSIVE validateDeclaredProperties(_, _, _, _, _)
validateDeclaredProperties(obj, properties, i, path, errors) ==
    IF i > Len(properties) THEN Ok(errors)
    ELSE LET v == IF HasKey(obj, properties[i].key)
                  THEN Get(obj, properties[i].key) ELSE JUndefined
             r == validateValue(v, properties[i].node,
                                PropertyPath(path, properties[i].key), errors)
         IN IF r.ok
            THEN validateDeclaredProperties(obj, properties, i + 1, path, r.errors)
            ELSE r

\* for (const [key, propSchema] of Object.entries(schema.properties))
validateProperties(obj, properties, i, path, errors) ==
    IF i > Len(properties) THEN Ok(errors)
    ELSE IF HasKey(obj, properties[i].key)
    THEN LET r == validateValue(Get(obj, properties[i].key), properties[i].node,
                                PropertyPath(path, properties[i].key), errors)
         IN IF r.ok THEN validateProperties(obj, properties, i + 1, path, r.errors)
            ELSE r
    ELSE validateProperties(obj, properties, i + 1, path, errors)

\* value.forEach((item, index) => ...): i is index + 1
validateItems(elems, items, i, path, errors) ==
    IF i > Len(elems) THEN Ok(errors)
    ELSE LET r == validateValue(elems[i], items, ItemPath(path, i - 1), errors)
         IN IF r.ok THEN validateItems(elems, items, i + 1, path, r.errors)
            ELSE r

\* a variant that validates the declared properties before the required
\* fields
validateObjectPropertiesFirst(obj, schema, path, errors) ==
    LET props == IF schema.properties # <<>>
                 THEN validateProperties(obj, schema.properties[1], 1, path, errors)
                 ELSE Ok(errors)
    IN IF props.ok THEN Ok(props.errors \o RequiredErrors(obj, schema, path))
       ELSE props

\* a variant that enforces additionalProperties: false
validateObjectClosed(obj, schema, path, errors) ==
    LET declared == IF schema.properties # <<>>
                    THEN {schema.properties[1][i].key :
                             i \in 1..Len(schema.properties[1])}
                    ELSE {}
        extra == SelectSeq(obj.fields, LAMBDA f : f.key \notin declared)
        closed == IF schema.additionalProperties = <<JBool(FALSE)>>
                  THEN [i \in 1..Len(extra) |->
                           ViolationNoValue(PropertyPath(path, extra[i].key),
                                            "Additional property not allowed")]
                  ELSE <<>>
        base == errors \o RequiredErrors(obj, schema, path) \o closed
    IN IF schema.properties # <<>>
       THEN validateProperties(obj, schema.properties[1], 1, path, base)
       ELSE Ok(base)

\* the object branch: the required fields, then the declared properties
validateObject(obj, schema, path, errors) ==
    IF schema.properties # <<>>
    THEN validateProperties(obj, schema.properties[1], 1, path,
                            errors \o RequiredErrors(obj, schema, path))
    ELSE Ok(errors \o RequiredErrors(obj, schema, path))

\* a variant in which a node with a combinator still gets its type check
validateValueTypeAfterCombinator(value, schema, path, errors) ==
    LET typed(errs) == IF TypeMismatch(value, schema)
                       THEN Append(errs, Violation(path, MsgType, value))
                       ELSE errs
    IN  IF schema.shape = "null" THEN Throw("TypeError")
        ELSE IF HasRef(schema) THEN Ok(errors)
        ELSE IF schema.oneOf # <<>>
        THEN LET probe == ProbeAll(value, schema.oneOf[1], 1, path)
             IN IF ~probe.ok THEN probe
                ELSE IF OneOfFails(probe.validCount)
                THEN Ok(typed(Append(errors, Violation(path, MsgOneOf, value))))
                ELSE Ok(typed(errors))
        ELSE IF schema.anyOf # <<>>
        THEN LET probe == AnyOfSome(value, schema.anyOf[1], 1, path)
             IN IF ~probe.ok THEN probe
                ELSE IF ~probe.isValid
                THEN Ok(typed(Append(errors, Violation(path, MsgAnyOf, value))))
                ELSE Ok(typed(errors))
        ELSE IF TypeMismatch(value, schema)
        THEN Ok(Append(errors, Violation(path, MsgType, value)))
        ELSE IF PatternThrows(value, schema) THEN Throw("SyntaxError")
        ELSE LET leaf == errors \o EnumErrors(value, schema, path)
                                \o PatternErrors(value, schema, path)
                                \o RangeErrors(value, schema, path)
                                \o LengthErrors(value, schema, path)
                 afterObject == IF ObjectDescent(value, schema)
                                THEN validateObject(value, schema, path, leaf)
                                ELSE Ok(leaf)
             IN IF ~afterObject.ok THEN afterObject
                ELSE IF ArrayDescent(value, schema)
                THEN validateItems(value.elems, schema.items[1], 1, path,
                                   afterObject.errors)
                ELSE afterObject

validateValue(value, schema, path, errors) ==
    IF schema.shape = "null" THEN Throw("TypeError")
    ELSE IF HasRef(schema) THEN Ok(errors)
    ELSE IF schema.oneOf # <<>>
    THEN LET probe == ProbeAll(value, schema.oneOf[1], 1, path)
         IN IF ~probe.ok THEN probe
            ELSE IF OneOfFails(probe.validCount)
            THEN Ok(Append(errors, Violation(path, MsgOneOf, value)))
            ELSE Ok(errors)
    ELSE IF schema.anyOf # <<>>
    THEN LET probe == AnyOfSome(value, schema.anyOf[1], 1, path)
         IN IF ~probe.ok THEN probe
            ELSE IF ~probe.isValid
            THEN Ok(Append(errors, Violation(path, MsgAnyOf, value)))
            ELSE Ok(errors)
    ELSE IF TypeMismatch(value, schema)
    THEN Ok(Append(errors, Violation(path, MsgType, value)))
    ELSE IF PatternThrows(value, schema) THEN Throw("SyntaxError")
    ELSE LET leaf == errors \o EnumErrors(value, schema, path)
                            \o PatternErrors(value, schema, path)
                            \o RangeErrors(value, schema, path)
                            \o LengthErrors(value, schema, path)
             afterObject == IF ObjectDescent(value, schema)
                            THEN validateObject(value, schema, path, leaf)
                            ELSE Ok(leaf)
         IN IF ~afterObject.ok THEN afterObject
            ELSE IF ArrayDescent(value, schema)
            THEN validateItems(value.elems, schema.items[1], 1, path,
                               afterObject.errors)
            ELSE afterObject

----------------------------------------------------------------------------
(* The bounded universe of values and schema nodes.                        *)

\* the longest oneOf / anyOf list
MaxAlts == 2
\* the longest array value
MaxElems == 3

\* sequences over S of length at most n
SeqsUpTo(S, n) == UNION {[1..k -> S] : k \in 0..n}

StrVals == {"", "a", "abc"}
\* twice the numbers -1, 0, 0.5 and 2
NumVals == {-2, 0, 1, 4}

Primitives ==
    {JNull, JUndefined, JBool(TRUE)}
    \cup {JNum(n) : n \in NumVals}
    \cup {JStr(s) : s \in StrVals}

\* objects over the keys id and count
FlatObjects ==
    {JObj(ids \o counts) :
        ids \in {<<>>} \cup {<<Field("id", v)>> : v \in {JStr("a"), JNum(-2)}},
        counts \in {<<>>} \cup {<<Field("count", v)>> :
                                  v \in {JNum(-2), JNum(0), JStr("a")}}}

ElemVals == {JStr("a"), JObj(<<>>)}
Arrays == {JArr(es) : es \in SeqsUpTo(ElemVals, MaxElems)}

Values ==
    Primitives \cup FlatObjects \cup Arrays
    \cup {JObj(<<Field("colors", a)>>) : a \in Arrays}
    \cup {JObj(<<Field("meta", o)>>) : o \in FlatObjects}

OptTwo == {<<>>, <<2>>}

TypeForms ==
    {<<>>, SingleType(""), TypeList(<<>>),
     TypeList(<<"string", "null">>), TypeList(<<"number", "integer">>),
     TypeList(<<"object">>), TypeList(<<"array">>)}
    \cup {SingleType(t) : t \in {"string", "integer", "number", "boolean",
                                 "null", "object", "array"}}

\* type "string" next to the keys of an object and of an array schema
StructuredStringNode ==
    [EmptyNode EXCEPT !.type = SingleType("string"),
                      !.required = <<<<"id", "count">>>>,
                      !.properties = <<<<Prop("id", [EmptyNode EXCEPT
                                              !.type = SingleType("boolean")])>>>>,
                      !.items = <<[EmptyNode EXCEPT !.type = SingleType("boolean")]>>,
                      !.minimum = <<0>>, !.enum = <<<<JStr("a")>>>>]

TypeLeaves ==
    {[EmptyNode EXCEPT !.type = t] : t \in TypeForms} \cup {StructuredStringNode}

StringLeaves ==
    {[EmptyNode EXCEPT !.type = t, !.pattern = p, !.minLength = a, !.maxLength = b] :
        t \in {<<>>, SingleType("string")},
        p \in {<<>>, <<"">>, <<"^a">>, <<"(">>},
        a \in OptTwo, b \in OptTwo}

NumberLeaves ==
    {[EmptyNode EXCEPT !.type = t, !.minimum = lo, !.maximum = hi] :
        t \in {<<>>, SingleType("integer"), SingleType("number")},
        lo \in {<<>>, <<0>>, <<2>>}, hi \in {<<>>, <<0>>, <<2>>}}

EnumLeaves ==
    {[EmptyNode EXCEPT !.type = t, !.enum = <<e>>, !.pattern = p] :
        t \in {<<>>, SingleType("string")},
        e \in {<<>>, <<JStr("a"), JNum(0)>>},
        p \in {<<>>, <<"^a">>}}

StringNode == [EmptyNode EXCEPT !.type = SingleType("string")]
CountNode == [EmptyNode EXCEPT !.type = SingleType("integer"), !.minimum = <<0>>]
BadPatternNode == [EmptyNode EXCEPT !.pattern = <<"(">>]

AltNodes == {StringNode, CountNode, EmptyNode, BadPatternNode, NullNode}
AltLists == SeqsUpTo(AltNodes, MaxAlts)

OneOfNodes == {[EmptyNode EXCEPT !.oneOf = <<alts>>] : alts \in AltLists}
AnyOfNodes == {[EmptyNode EXCEPT !.anyOf = <<alts>>] : alts \in AltLists}

\* a combinator together with the other keys of a node
MixedNodes ==
    {[EmptyNode EXCEPT !.oneOf = o, !.anyOf = a, !.type = t, !.enum = e,
                       !.required = r] :
        o \in {<<>>, <<<<StringNode>>>>, <<<<CountNode, EmptyNode>>>>},
        a \in {<<>>, <<<<>>>>, <<<<StringNode, EmptyNode>>>>},
        t \in {<<>>, SingleType("string"), SingleType("object")},
        e \in {<<>>, <<<<>>>>},
        r \in {<<>>, <<<<"id">>>>}}

PropNodes ==
    {StringNode, CountNode, NullNode,
     [EmptyNode EXCEPT !.oneOf = <<<<StringNode, CountNode>>>>]}

PropLists ==
    {<<>>}
    \cup {<<Prop("id", n)>> : n \in PropNodes}
    \cup {<<Prop("id", n), Prop("count", m)>> : n \in PropNodes, m \in PropNodes}
    \cup {<<Prop("count", m), Prop("id", n)>> : n \in PropNodes, m \in PropNodes}

RequiredLists == {<<>>, <<"id">>, <<"id", "count">>, <<"count", "id">>}

ObjectNodes ==
    {[EmptyNode EXCEPT !.type = SingleType("object"), !.required = r,
                       !.properties = p] :
        r \in {<<>>} \cup {<<l>> : l \in RequiredLists},
        p \in {<<>>} \cup {<<l>> : l \in PropLists}}

\* the object schema of the end-to-end example
ExampleNode ==
    [EmptyNode EXCEPT !.type = SingleType("object"), !.required = <<<<"id">>>>,
                      !.properties = <<<<Prop("id", StringNode),
                                         Prop("count", CountNode)>>>>]

\* the value of the end-to-end example: {count: -1}
ExampleValue == JObj(<<Field("count", JNum(-2))>>)

ItemNodes ==
    {StringNode, ExampleNode, NullNode, BadPatternNode,
     [EmptyNode EXCEPT !.anyOf = <<<<StringNode>>>>]}

NestedNodes ==
    {[EmptyNode EXCEPT !.type = t, !.items = <<n>>] :
        t \in {SingleType("array"), TypeList(<<"array">>)}, n \in ItemNodes}
    \cup {[EmptyNode EXCEPT !.type = SingleType("object"), !.required = r,
                            !.properties = <<<<Prop(k, n)>>>>] :
            r \in {<<>>, <<<<"colors">>>>, <<<<"meta">>>>},
            k \in {"colors", "meta"},
            n \in {ExampleNode,
                   [EmptyNode EXCEPT !.type = TypeList(<<"object">>),
                                     !.required = <<<<"id">>>>]}
                  \cup {[EmptyNode EXCEPT !.type = SingleType("array"),
                                          !.items = <<m>>] : m \in ItemNodes}}

\* nodes with $ref next to other keys
RefNodes ==
    {[n EXCEPT !.ref = <<r>>] :
        r \in {"", "#/definitions/color"},
        n \in {EmptyNode, StringNode, CountNode, ExampleNode,
               [EmptyNode EXCEPT !.enum = <<<<>>>>],
               [EmptyNode EXCEPT !.oneOf = <<<<>>>>],
               [EmptyNode EXCEPT !.anyOf = <<<<>>>>],
               [EmptyNode EXCEPT !.type = SingleType("array"),
                                 !.items = <<StringNode>>]}}

\* object and array schemas whose type is a list of tags
TypeSetNodes ==
    {[EmptyNode EXCEPT !.type = TypeList(ts), !.required = r, !.properties = p] :
        ts \in {<<"object">>, <<"object", "null">>},
        r \in {<<>>, <<<<"id">>>>},
        p \in {<<>>, <<<<Prop("count", CountNode)>>>>,
               <<<<Prop("id", StringNode), Prop("count", CountNode)>>>>}}
    \cup {[EmptyNode EXCEPT !.type = TypeList(<<"array", "null">>),
                            !.items = <<StringNode>>]}

\* a combinator on a node that also declares properties, items, a range, a
\* length or a pattern
CombinedNodes ==
    {[n EXCEPT !.oneOf = c[1], !.anyOf = c[2]] :
        n \in {ExampleNode, CountNode, BadPatternNode,
               [EmptyNode EXCEPT !.type = SingleType("array"),
                                 !.items = <<StringNode>>],
               [EmptyNode EXCEPT !.minLength = <<2>>]},
        c \in {<< <<<<EmptyNode>>>>, <<>> >>,
               << <<>>, <<<<EmptyNode>>>> >>,
               << <<<<StringNode>>>>, <<<<EmptyNode>>>> >>,
               << <<>>, <<<<CountNode>>>> >>}}

\* an enum that lists an object and an array among its literals
StructureEnumNodes ==
    {[EmptyNode EXCEPT !.type = t,
                       !.enum = <<<<JObj(<<>>), JArr(<<>>), JStr("a")>>>>,
                       !.required = r] :
        t \in {<<>>, SingleType("object"), SingleType("array")},
        r \in {<<>>, <<<<"id">>>>}}

\* object nodes that declare additionalProperties, as a boolean or a schema
ClosedNodes ==
    {[n EXCEPT !.additionalProperties = <<b>>] :
        n \in {ExampleNode,
               [EmptyNode EXCEPT !.type = SingleType("object")],
               [EmptyNode EXCEPT !.type = SingleType("object"),
                                 !.required = <<<<"count">>>>,
                                 !.properties = <<<<Prop("id", StringNode)>>>>]},
        b \in {JBool(FALSE), JBool(TRUE), StringNode}}

\* nodes that carry allOf, alone or next to other constraints
AllOfNodes ==
    {[n EXCEPT !.allOf = <<alts>>] :
        n \in {EmptyNode, StringNode, CountNode, ExampleNode},
        alts \in {<<>>, <<StringNode>>, <<CountNode, StringNode>>, <<NullNode>>}}

Schemas ==
    TypeLeaves \cup StringLeaves \cup NumberLeaves \cup EnumLeaves
    \cup OneOfNodes \cup AnyOfNodes \cup MixedNodes \cup ObjectNodes
    \cup NestedNodes \cup RefNodes \cup TypeSetNodes \cup AllOfNodes
    \cup CombinedNodes \cup StructureEnumNodes \cup ClosedNodes

----------------------------------------------------------------------------
(* The JsonMaker instances over the file system.                           *)

NoCall == [op |-> "none"]

\* the default instance exported by json-maker.ts and the instance a
\* repository constructs; both use the default schema directory
Makers == {"jsonMaker", "colorRepository"}
SchemaDir == "json-schema"
SchemaNames == {"color-file-schema.json"}
DataFiles == {"data/colors.json"}

\* path.isAbsolute and path.join(this.schemaDir, schemaPath)
AbsolutePaths == {}
IsAbsolute(p) == p \in AbsolutePaths
FullPath(schemaPath) ==
    IF IsAbsolute(schemaPath) THEN schemaPath ELSE SchemaDir \o "/" \o schemaPath

SchemaFiles == {FullPath(n) : n \in SchemaNames}
Paths == SchemaFiles \cup DataFiles

\* A file is missing, or holds text: json is <<>> when JSON.parse rejects the
\* text and <<v>> when it decodes to v (a schema tree under the schema
\* directory, a value elsewhere).
Missing == [exists |-> FALSE]
Undecodable == [exists |-> TRUE, json |-> <<>>]
Holding(v) == [exists |-> TRUE, json |-> <<v>>]

\* the schema trees and the data the system specification works with
\* a schema of record files: an array whose elements are the example's records
ColorFileNode ==
    [EmptyNode EXCEPT !.type = SingleType("array"), !.items = <<ExampleNode>>]
DiskSchemas == {ExampleNode, StringNode, BadPatternNode}
ValidExampleValue == JObj(<<Field("id", JStr("a")), Field("count", JNum(0))>>)
\* the record data a repository holds: an array of records
RepositoryData ==
    {JArr(<<>>), JArr(<<ValidExampleValue>>), JArr(<<ExampleValue>>)}
DiskValues == {ExampleValue, ValidExampleValue, JStr("a")}

\* what the files hold in the specification of the repositories
RepositoryContentsOf(p) ==
    {Missing, Undecodable}
    \cup {Holding(v) : v \in (IF p \in SchemaFiles
                              THEN {ColorFileNode, ExampleNode}
                              ELSE RepositoryData \cup {ValidExampleValue})}

ContentsOf(p) ==
    {Missing, Undecodable}
    \cup {Holding(v) : v \in (IF p \in SchemaFiles THEN DiskSchemas ELSE DiskValues)}

Return(v) == [ok |-> TRUE, value |-> v]

\* a variant that reports every result as valid
ValidationResultAlwaysValid(errors) == [valid |-> TRUE, errors |-> errors]

\* { valid: errors.length === 0, errors }
ValidationResult(errors) == [valid |-> Len(errors) = 0, errors |-> errors]

MsgFileNotFound == "File not found"
MsgFailedToParse == "Failed to parse JSON"

\* the calls a method makes on the file system, in order
ExistsSync(p) == [fn |-> "existsSync", path |-> p]
ReadFileSync(p) == [fn |-> "readFileSync", path |-> p]

\* a variant that reads the resource on every load and replaces the entry
loadSchemaRereading(cache, fs, schemaPath) ==
    LET fullPath == FullPath(schemaPath)
    IN IF ~fs[fullPath].exists
       THEN [ret |-> Throw("Error: Schema file not found"), cache |-> cache,
             fsCalls |-> <<ExistsSync(fullPath)>>]
       ELSE IF fs[fullPath].json = <<>>
       THEN [ret |-> Throw("SyntaxError"), cache |-> cache,
             fsCalls |-> <<ExistsSync(fullPath), ReadFileSync(fullPath)>>]
       ELSE [ret |-> Return(fs[fullPath].json[1]),
             cache |-> [cache EXCEPT ![fullPath] = fs[fullPath].json],
             fsCalls |-> <<ExistsSync(fullPath), ReadFileSync(fullPath)>>]

\* a variant that remembers a failed load as a null tree
loadSchemaNegativeCache(cache, fs, schemaPath) ==
    LET fullPath == FullPath(schemaPath)
    IN IF cache[fullPath] # <<>>
       THEN [ret |-> Return(cache[fullPath][1]), cache |-> cache, fsCalls |-> <<>>]
       ELSE IF ~fs[fullPath].exists
       THEN [ret |-> Throw("Error: Schema file not found"),
             cache |-> [cache EXCEPT ![fullPath] = <<NullNode>>],
             fsCalls |-> <<ExistsSync(fullPath)>>]
       ELSE IF fs[fullPath].json = <<>>
       THEN [ret |-> Throw("SyntaxError"),
             cache |-> [cache EXCEPT ![fullPath] = <<NullNode>>],
             fsCalls |-> <<ExistsSync(fullPath), ReadFileSync(fullPath)>>]
       ELSE [ret |-> Return(fs[fullPath].json[1]),
             cache |-> [cache EXCEPT ![fullPath] = fs[fullPath].json],
             fsCalls |-> <<ExistsSync(fullPath), ReadFileSync(fullPath)>>]

\* loadSchema on a cache and a file system: what the call returns or throws,
\* the cache it leaves and the calls it made on the file system
loadSchema(cache, fs, schemaPath) ==
    LET fullPath == FullPath(schemaPath)
    IN IF cache[fullPath] # <<>>
       THEN [ret |-> Return(cache[fullPath][1]), cache |-> cache, fsCalls |-> <<>>]
       ELSE IF ~fs[fullPath].exists
       THEN [ret |-> Throw("Error: Schema file not found"), cache |-> cache,
             fsCalls |-> <<ExistsSync(fullPath)>>]
       ELSE IF fs[fullPath].json = <<>>
       THEN [ret |-> Throw("SyntaxError"), cache |-> cache,
             fsCalls |-> <<ExistsSync(fullPath), ReadFileSync(fullPath)>>]
       ELSE [ret |-> Return(fs[fullPath].json[1]),
             cache |-> [cache EXCEPT ![fullPath] = fs[fullPath].json],
             fsCalls |-> <<ExistsSync(fullPath), ReadFileSync(fullPath)>>]

\* a variant that reports a failed schema load as a violation
validateCatching(cache, fs, data, schemaPath) ==
    LET loaded == loadSchema(cache, fs, schemaPath)
    IN IF ~loaded.ret.ok
       THEN [ret |-> Return([valid |-> FALSE,
                             errors |-> <<ViolationNoValue("", MsgFailedToParse)>>]),
             cache |-> loaded.cache,
             fsCalls |-> loaded.fsCalls]
       ELSE LET checked == validateValue(data, loaded.ret.value, "", <<>>)
            IN [ret |-> IF checked.ok
                        THEN Return(ValidationResult(checked.errors))
                        ELSE checked,
                cache |-> loaded.cache,
                fsCalls |-> loaded.fsCalls]

\* a variant that drops the schema from the cache after use
validateEvicting(cache, fs, data, schemaPath) ==
    LET loaded == loadSchema(cache, fs, schemaPath)
    IN IF ~loaded.ret.ok THEN loaded
       ELSE LET checked == validateValue(data, loaded.ret.value, "", <<>>)
            IN [ret |-> IF checked.ok
                        THEN Return(ValidationResult(checked.errors))
                        ELSE checked,
                cache |-> [loaded.cache EXCEPT ![FullPath(schemaPath)] = <<>>],
                fsCalls |-> loaded.fsCalls]

validate(cache, fs, data, schemaPath) ==
    LET loaded == loadSchema(cache, fs, schemaPath)
    IN IF ~loaded.ret.ok THEN loaded
       ELSE LET checked == validateValue(data, loaded.ret.value, "", <<>>)
            IN [ret |-> IF checked.ok
                        THEN Return(ValidationResult(checked.errors))
                        ELSE checked,
                cache |-> loaded.cache,
                fsCalls |-> loaded.fsCalls]

\* a variant without the try block: the exception leaves validateFile
Uncaught(ret) == ret

\* try { ... } catch (error) { return { valid: false, errors: [...] } }
Caught(ret) ==
    IF ret.ok THEN ret
    ELSE Return([valid |-> FALSE,
                 errors |-> <<ViolationNoValue("", MsgFailedToParse)>>])

validateFile(cache, fs, filePath, schemaPath) ==
    IF ~fs[filePath].exists
    THEN [ret |-> Return([valid |-> FALSE,
                          errors |-> <<ViolationNoValue("", MsgFileNotFound)>>]),
          cache |-> cache,
          fsCalls |-> <<ExistsSync(filePath)>>]
    ELSE IF fs[filePath].json = <<>>
    THEN [ret |-> Caught(Throw("SyntaxError")), cache |-> cache,
          fsCalls |-> <<ExistsSync(filePath), ReadFileSync(filePath)>>]
    ELSE LET validated == validate(cache, fs, fs[filePath].json[1], schemaPath)
         IN [ret |-> Caught(validated.ret), cache |-> validated.cache,
             fsCalls |-> <<ExistsSync(filePath), ReadFileSync(filePath)>>
                         \o validated.fsCalls]

\* a variant that takes a falsy default (null, false, 0, "") for no default
HasDefaultTruthy(propSchema) ==
    /\ propSchema.default # <<>>
    /\ propSchema.default[1] \notin {JNull, JBool(FALSE), JNum(0), JStr("")}

\* propSchema.default !== undefined: a decoded default is never undefined
HasDefault(propSchema) == propSchema.default # <<>>

\* a variant that ignores the minimum
ZeroAlways(propSchema) == 0

\* propSchema.minimum ?? 0
MinimumOrZero(propSchema) ==
    IF propSchema.minimum # <<>> THEN propSchema.minimum[1] ELSE 0

RECURSIVE generateFromSchema(_)
RECURSIVE generateProperties(_, _, _)

\* the value generateFromSchema gives one property (the body of its loop)
propertyTemplate(propSchema) ==
    IF propSchema.shape = "null" THEN Throw("TypeError")
    ELSE IF HasDefault(propSchema) THEN Return(propSchema.default[1])
    ELSE IF propSchema.enum # <<>> /\ Len(propSchema.enum[1]) > 0
    THEN Return(propSchema.enum[1][1])
    ELSE IF propSchema.type = SingleType("string") THEN Return(JStr(""))
    ELSE IF propSchema.type \in {SingleType("number"), SingleType("integer")}
    THEN Return(JNum(MinimumOrZero(propSchema)))
    ELSE IF propSchema.type = SingleType("boolean") THEN Return(JBool(FALSE))
    ELSE IF propSchema.type = SingleType("array") THEN Return(JArr(<<>>))
    ELSE IF propSchema.type = SingleType("object") THEN generateFromSchema(propSchema)
    ELSE Return(JNull)

\* for (const [key, propSchema] of Object.entries(schema.properties))
generateProperties(properties, i, fields) ==
    IF i > Len(properties) THEN Return(JObj(fields))
    ELSE LET made == propertyTemplate(properties[i].node)
         IN IF ~made.ok THEN made
            ELSE generateProperties(properties, i + 1,
                     Append(fields, Field(properties[i].key, made.value)))

generateFromSchema(schema) ==
    IF schema.shape = "null" THEN Throw("TypeError")
    ELSE IF schema.type = SingleType("array") THEN Return(JArr(<<>>))
    ELSE IF schema.type # SingleType("object") \/ schema.properties = <<>>
    THEN Return(JObj(<<>>))
    ELSE generateProperties(schema.properties[1], 1, <<>>)

generateTemplate(cache, fs, schemaPath) ==
    LET loaded == loadSchema(cache, fs, schemaPath)
    IN IF ~loaded.ret.ok THEN loaded
       ELSE [ret |-> generateFromSchema(loaded.ret.value),
             cache |-> loaded.cache,
             fsCalls |-> loaded.fsCalls]

WriteFileSync(p) == [fn |-> "writeFileSync", path |-> p]

RECURSIVE JsonText(_)
\* JSON.stringify, named by the value its text decodes to: a key whose value
\* is undefined or a function is left out, and such an element of an array
\* becomes null
JsonText(v) ==
    IF v.kind = "object"
    THEN LET kept == SelectSeq(v.fields, LAMBDA f : f.val.kind \notin {"undefined", "function"})
         IN JObj([i \in 1..Len(kept) |-> Field(kept[i].key, JsonText(kept[i].val))])
    ELSE IF v.kind = "array"
    THEN JArr([i \in 1..Len(v.elems) |->
                  IF v.elems[i].kind \in {"undefined", "function"} THEN JNull
                  ELSE JsonText(v.elems[i])])
    ELSE v

\* writeJson with the default options: JSON.stringify gives no text for
\* undefined or a function, and fs.writeFileSync rejects that with a TypeError
writeJson(fs, data, outputPath) ==
    IF data.kind \in {"undefined", "function"}
    THEN [ret |-> Throw("TypeError"), fs |-> fs, fsCalls |-> <<>>]
    ELSE [ret |-> Return(JUndefined),
          fs |-> [fs EXCEPT ![outputPath] = Holding(JsonText(data))],
          fsCalls |-> <<WriteFileSync(outputPath)>>]

\* a variant that writes the file whatever the validation found
createValidatedJsonUnchecked(cache, fs, data, schemaPath, outputPath) ==
    LET validation == validate(cache, fs, data, schemaPath)
        written == writeJson(fs, data, outputPath)
    IN IF ~validation.ret.ok
       THEN [ret |-> validation.ret, cache |-> validation.cache, fs |-> fs,
             fsCalls |-> validation.fsCalls]
       ELSE [ret |-> IF written.ret.ok THEN validation.ret ELSE written.ret,
             cache |-> validation.cache, fs |-> written.fs,
             fsCalls |-> validation.fsCalls \o written.fsCalls]

createValidatedJson(cache, fs, data, schemaPath, outputPath) ==
    LET validation == validate(cache, fs, data, schemaPath)
        written == writeJson(fs, data, outputPath)
    IN IF ~validation.ret.ok
       THEN [ret |-> validation.ret, cache |-> validation.cache, fs |-> fs,
             fsCalls |-> validation.fsCalls]
       ELSE IF validation.ret.value.valid
       THEN [ret |-> IF written.ret.ok THEN validation.ret ELSE written.ret,
             cache |-> validation.cache, fs |-> written.fs,
             fsCalls |-> validation.fsCalls \o written.fsCalls]
       ELSE [ret |-> validation.ret, cache |-> validation.cache, fs |-> fs,
             fsCalls |-> validation.fsCalls]

\* the schema a color repository validates against (models/color.ts)
COLOR_SCHEMA == "color-file-schema.json"

\* a variant that writes the file before it looks at the validation
saveToFileUnchecked(cache, fs, data, filePath) ==
    LET validation == validate(cache, fs, data, COLOR_SCHEMA)
        written == writeJson(fs, data, filePath)
    IN IF ~validation.ret.ok
       THEN [ret |-> validation.ret, cache |-> validation.cache, fs |-> fs,
             fsCalls |-> validation.fsCalls]
       ELSE [ret |-> IF validation.ret.value.valid THEN written.ret
                     ELSE Throw("Error: Invalid color data"),
             cache |-> validation.cache, fs |-> written.fs,
             fsCalls |-> validation.fsCalls \o written.fsCalls]

\* the repository's saveToFile on the record data (the models' toJSON)
saveToFile(cache, fs, data, filePath) ==
    LET validation == validate(cache, fs, data, COLOR_SCHEMA)
        written == writeJson(fs, data, filePath)
    IN IF ~validation.ret.ok
       THEN [ret |-> validation.ret, cache |-> validation.cache, fs |-> fs,
             fsCalls |-> validation.fsCalls]
       ELSE IF ~validation.ret.value.valid
       THEN [ret |-> Throw("Error: Invalid color data"),
             cache |-> validation.cache, fs |-> fs,
             fsCalls |-> validation.fsCalls]
       ELSE [ret |-> written.ret, cache |-> validation.cache, fs |-> written.fs,
             fsCalls |-> validation.fsCalls \o written.fsCalls]

\* readData({type: "file", path})
readData(fs, filePath) ==
    IF ~fs[filePath].exists
    THEN [ret |-> Throw("Error: File not found"),
          fsCalls |-> <<ExistsSync(filePath)>>]
    ELSE [ret |-> IF fs[filePath].json = <<>> THEN Throw("SyntaxError")
                  ELSE Return(fs[filePath].json[1]),
          fsCalls |-> <<ExistsSync(filePath), ReadFileSync(filePath)>>]

\* Object.keys(schema.properties)
KeysOf(properties) == [i \in 1..Len(properties) |-> properties[i].key]

\* schema.required || []
RequiredOrNone(schema) ==
    IF schema.required # <<>> THEN schema.required[1] ELSE <<>>

\* the SchemaInfo of a loaded tree; the trees of the model carry neither
\* title nor description
SchemaInfoOf(schema) ==
    LET ofObject == schema.type = SingleType("object") /\ schema.properties # <<>>
        ofArray == /\ schema.type = SingleType("array")
                   /\ schema.items # <<>>
                   /\ schema.items[1].shape = "mapping"
                   /\ schema.items[1].properties # <<>>
    IN [title |-> "Untitled Schema",
        description |-> "",
        rootType |-> schema.type,
        requiredFields |-> IF ofObject THEN RequiredOrNone(schema)
                           ELSE IF ofArray THEN RequiredOrNone(schema.items[1])
                           ELSE <<>>,
        properties |-> IF ofObject THEN KeysOf(schema.properties[1])
                       ELSE IF ofArray THEN KeysOf(schema.items[1].properties[1])
                       ELSE <<>>]

getSchemaInfo(cache, fs, schemaPath) ==
    LET loaded == loadSchema(cache, fs, schemaPath)
    IN IF ~loaded.ret.ok THEN loaded
       ELSE [ret |-> IF loaded.ret.value.shape = "null" THEN Throw("TypeError")
                     ELSE Return(SchemaInfoOf(loaded.ret.value)),
             cache |-> loaded.cache,
             fsCalls |-> loaded.fsCalls]

\* the instances that belong to a repository
Repositories == {"colorRepository"}

\* the data the callers hand to createValidatedJson: the decoded values and
\* an object with a key that is present and undefined
UndefinedCountValue ==
    JObj(<<Field("id", JStr("a")), Field("count", JUndefined)>>)
CallValues == DiskValues \cup {UndefinedCountValue}
OutputFiles == DataFiles

\* a variant in which every instance uses the cache of the default instance
CacheOfDefaultInstance(m) == schemaCache["jsonMaker"]

\* this.schemaCache of instance m
CacheOf(m) == schemaCache[m]

PureIdle ==
    /\ argValue = JNull
    /\ argSchema = EmptyNode
    /\ argPath = ""
    /\ argErrors = <<>>
    /\ outcome = <<>>
    /\ removed = <<>>
    /\ actualType = <<>>
    /\ template = <<>>

Init ==
    /\ PureIdle
    /\ files \in {f \in [Paths -> UNION {ContentsOf(p) : p \in Paths}] :
                    \A p \in Paths : f[p] \in ContentsOf(p)}
    /\ schemaCache = [m \in Makers |-> [p \in SchemaFiles |-> <<>>]]
    /\ call = NoCall
    /\ result = <<>>
    /\ loading = <<>>

\* anything outside the program creates, rewrites or deletes a file
ExternalWrite ==
    /\ UNCHANGED loading
    /\ \E p \in Paths : \E c \in ContentsOf(p) :
          /\ files[p] # c
          /\ files' = [files EXCEPT ![p] = c]
    /\ call' = [op |-> "externalWrite"]
    /\ result' = <<>>
    /\ UNCHANGED schemaCache
    /\ UNCHANGED pureVars

LoadSchema ==
    /\ UNCHANGED loading
    /\ \E m \in Makers : \E name \in SchemaNames :
          LET done == loadSchema(CacheOf(m), files, name)
          IN /\ schemaCache' = [schemaCache EXCEPT ![m] = done.cache]
             /\ result' = <<done.ret>>
             /\ call' = [op |-> "loadSchema", maker |-> m, schemaPath |-> name,
                         fsCalls |-> done.fsCalls]
    /\ UNCHANGED files
    /\ UNCHANGED pureVars

Validate ==
    /\ UNCHANGED loading
    /\ \E m \in Makers : \E name \in SchemaNames : \E data \in DiskValues :
          LET done == validate(CacheOf(m), files, data, name)
          IN /\ schemaCache' = [schemaCache EXCEPT ![m] = done.cache]
             /\ result' = <<done.ret>>
             /\ call' = [op |-> "validate", maker |-> m, schemaPath |-> name,
                         data |-> data, fsCalls |-> done.fsCalls]
    /\ UNCHANGED files
    /\ UNCHANGED pureVars

ValidateFile ==
    /\ UNCHANGED loading
    /\ \E m \in Makers : \E name \in SchemaNames : \E f \in DataFiles :
          LET done == validateFile(CacheOf(m), files, f, name)
          IN /\ schemaCache' = [schemaCache EXCEPT ![m] = done.cache]
             /\ result' = <<done.ret>>
             /\ call' = [op |-> "validateFile", maker |-> m, schemaPath |-> name,
                         filePath |-> f, fsCalls |-> done.fsCalls]
    /\ UNCHANGED files
    /\ UNCHANGED pureVars

GenerateTemplate ==
    /\ UNCHANGED loading
    /\ \E m \in Makers : \E name \in SchemaNames :
          LET done == generateTemplate(CacheOf(m), files, name)
          IN /\ schemaCache' = [schemaCache EXCEPT ![m] = done.cache]
             /\ result' = <<done.ret>>
             /\ call' = [op |-> "generateTemplate", maker |-> m,
                         schemaPath |-> name, fsCalls |-> done.fsCalls]
    /\ UNCHANGED files
    /\ UNCHANGED pureVars

CreateValidatedJson ==
    /\ UNCHANGED loading
    /\ \E m \in Makers : \E name \in SchemaNames : \E data \in CallValues :
       \E out \in OutputFiles :
          LET done == createValidatedJson(CacheOf(m), files, data, name, out)
          IN /\ schemaCache' = [schemaCache EXCEPT ![m] = done.cache]
             /\ files' = done.fs
             /\ result' = <<done.ret>>
             /\ call' = [op |-> "createValidatedJson", maker |-> m,
                         schemaPath |-> name, data |-> data,
                         outputPath |-> out, fsCalls |-> done.fsCalls]
    /\ UNCHANGED pureVars

GetSchemaInfo ==
    /\ UNCHANGED loading
    /\ \E m \in Makers : \E name \in SchemaNames :
          LET done == getSchemaInfo(CacheOf(m), files, name)
          IN /\ schemaCache' = [schemaCache EXCEPT ![m] = done.cache]
             /\ result' = <<done.ret>>
             /\ call' = [op |-> "getSchemaInfo", maker |-> m,
                         schemaPath |-> name, fsCalls |-> done.fsCalls]
    /\ UNCHANGED files
    /\ UNCHANGED pureVars

Next ==
    \/ ExternalWrite
    \/ LoadSchema
    \/ Validate
    \/ ValidateFile
    \/ GenerateTemplate
    \/ CreateValidatedJson
    \/ GetSchemaInfo

Spec == Init /\ [][Next]_vars

----------------------------------------------------------------------------
(* The validator on its own: the inputs are drawn in the initial state and *)
(* the private validateValue is called either as validate calls it (root   *)
(* path, empty list) or as a recursive call does (a parent's path, a list  *)
(* that already holds a sibling's violation).                              *)

PriorViolation == ViolationNoValue("name", MsgRequired)
CallSites == {<<"", <<>>>>, <<"theme", <<PriorViolation>>>>}

\* the object without its key k
Without(obj, k) ==
    JObj(SelectSeq(obj.fields, LAMBDA f : f.key # k))

\* no instance has been used and no file exists
SystemIdle ==
    /\ files = [p \in Paths |-> Missing]
    /\ schemaCache = [m \in Makers |-> [p \in SchemaFiles |-> <<>>]]
    /\ call = NoCall
    /\ result = <<>>
    /\ loading = <<>>

InitValidateValue ==
    /\ argValue \in Values
    /\ argSchema \in Schemas
    /\ \E site \in CallSites : argPath = site[1] /\ argErrors = site[2]
    /\ outcome = <<>>
    /\ removed = <<>>
    /\ actualType = <<>>
    /\ template = <<>>
    /\ SystemIdle

RunValidateValue ==
    /\ outcome = <<>>
    /\ outcome' = <<validateValue(argValue, argSchema, argPath, argErrors)>>
    /\ UNCHANGED <<argValue, argSchema, argPath, argErrors, removed, actualType, template>>
    /\ UNCHANGED sysVars

\* A caller takes an object that validated with no violation, removes one of
\* the keys the node requires and validates again.
RemoveRequiredKey ==
    /\ outcome = <<Ok(argErrors)>>
    /\ removed = <<>>
    /\ argSchema.shape = "mapping"
    /\ argSchema.required # <<>>
    /\ argValue.kind = "object"
    /\ \E i \in 1..Len(argSchema.required[1]) :
          LET k == argSchema.required[1][i]
          IN /\ HasKey(argValue, k)
             /\ argValue' = Without(argValue, k)
             /\ removed' = <<k>>
             /\ outcome' = <<validateValue(Without(argValue, k), argSchema,
                                           argPath, argErrors)>>
    /\ UNCHANGED <<argSchema, argPath, argErrors, actualType, template>>
    /\ UNCHANGED sysVars

NextValidateValue == RunValidateValue \/ RemoveRequiredKey

SpecValidateValue == InitValidateValue /\ [][NextValidateValue]_vars

----------------------------------------------------------------------------
(* The type classifier on its own: the value is drawn in the initial state *)
(* and getType is applied to it.                                           *)

\* twice the numbers -1.5 .. 2.5 in steps of one half
ClassifierNums == -3..5

ClassifierValues ==
    Values \cup {JNum(n) : n \in ClassifierNums}
           \cup {JBool(FALSE), JFunction}
           \cup {JArr(<<JNum(n)>>) : n \in ClassifierNums}

InitGetType ==
    /\ argValue \in ClassifierValues
    /\ argSchema = EmptyNode
    /\ argPath = ""
    /\ argErrors = <<>>
    /\ outcome = <<>>
    /\ removed = <<>>
    /\ actualType = <<>>
    /\ template = <<>>
    /\ SystemIdle

RunGetType ==
    /\ actualType' = <<getType(argValue)>>
    /\ UNCHANGED <<argValue, argSchema, argPath, argErrors, outcome, removed, template>>
    /\ UNCHANGED sysVars

NextGetType == RunGetType

SpecGetType == InitGetType /\ [][NextGetType]_vars

----------------------------------------------------------------------------
(* The template synthesizer on its own: the schema tree is drawn in the    *)
(* initial state, generateFromSchema is applied to it, and the template is *)
(* then validated against the same tree as validate does it.               *)

TemplateTypes ==
    {<<>>, TypeList(<<"string", "null">>)}
    \cup {SingleType(t) : t \in {"string", "integer", "number", "boolean",
                                 "null", "object", "array"}}
TemplateDefaults ==
    {<<>>, <<JNull>>, <<JBool(FALSE)>>, <<JNum(0)>>, <<JStr("")>>, <<JStr("a")>>}
TemplateEnums == {<<>>, <<<<>>>>, <<<<JStr("a"), JNum(0)>>>>}
\* no minimum, minimum 5 and minimum 0.5
TemplateMinimums == {<<>>, <<10>>, <<1>>}

TemplatePropNodes ==
    {[EmptyNode EXCEPT !.type = ty, !.default = d, !.enum = en, !.minimum = lo] :
        ty \in TemplateTypes, d \in TemplateDefaults, en \in TemplateEnums,
        lo \in TemplateMinimums}

FiveNode == [EmptyNode EXCEPT !.type = SingleType("number"), !.minimum = <<10>>]
BooleanNode == [EmptyNode EXCEPT !.type = SingleType("boolean")]

\* object schemas nested as a property
TemplateInnerNodes ==
    {[EmptyNode EXCEPT !.type = SingleType("object"),
                       !.properties = <<<<Prop("n", n)>>>>] :
        n \in {FiveNode, StringNode, NullNode,
               [EmptyNode EXCEPT !.type = SingleType("object"),
                                 !.properties = <<<<Prop("id", StringNode)>>>>]}}

TemplatePairNodes == {StringNode, CountNode, BooleanNode, EmptyNode}

TemplateSchemas ==
    {[EmptyNode EXCEPT !.type = ty, !.properties = p] :
        ty \in TemplateTypes \cup {TypeList(<<"object">>), TypeList(<<"array">>)},
        p \in {<<>>, <<<<>>>>, <<<<Prop("n", StringNode)>>>>}}
    \cup {[EmptyNode EXCEPT !.type = SingleType("object"),
                            !.properties = <<<<Prop("n", n)>>>>] :
            n \in TemplatePropNodes \cup TemplateInnerNodes \cup {NullNode}}
    \cup {[EmptyNode EXCEPT !.type = SingleType("object"),
                            !.properties = <<<<Prop(k[1], a), Prop(k[2], b)>>>>] :
            k \in {<<"id", "count">>, <<"count", "id">>},
            a \in TemplatePairNodes, b \in TemplatePairNodes}
    \cup {NullNode}

InitTemplate ==
    /\ argSchema \in TemplateSchemas
    /\ argValue = JNull
    /\ argPath = ""
    /\ argErrors = <<>>
    /\ outcome = <<>>
    /\ removed = <<>>
    /\ actualType = <<>>
    /\ template = <<>>
    /\ SystemIdle

RunGenerateFromSchema ==
    /\ template' = <<generateFromSchema(argSchema)>>
    /\ UNCHANGED <<argValue, argSchema, argPath, argErrors, outcome, removed, actualType>>
    /\ UNCHANGED sysVars

\* validate(template, schema) once the schema is loaded
ValidateTemplate ==
    /\ template # <<>>
    /\ template[1].ok
    /\ argValue' = template[1].value
    /\ outcome' = <<validateValue(template[1].value, argSchema, "", <<>>)>>
    /\ UNCHANGED <<argSchema, argPath, argErrors, removed, actualType, template>>
    /\ UNCHANGED sysVars

NextTemplate == RunGenerateFromSchema \/ ValidateTemplate

SpecTemplate == InitTemplate /\ [][NextTemplate]_vars

----------------------------------------------------------------------------
(* Claims about validateValue, checked under SpecValidateValue.            *)

Called == outcome # <<>> /\ removed = <<>>
Outcome == outcome[1]

\* the violations the call appended to the caller's list
Appended ==
    SubSeq(Outcome.errors, Len(argErrors) + 1, Len(Outcome.errors))
KeepsCallerList ==
    /\ Len(Outcome.errors) >= Len(argErrors)
    /\ SubSeq(Outcome.errors, 1, Len(argErrors)) = argErrors

\* the node's $ref is set: a non-empty string (the code tests its truthiness,
\* so an empty $ref counts as not set)
RefIsSet(node) == node.ref # <<>> /\ node.ref[1] # ""

\* the node is decoded from a mapping and its $ref is not set
Checked(node) == node.shape = "mapping" /\ ~RefIsSet(node)

\* the outcome of probing alternative i of a combinator into a fresh list
Probe(alts, i) == validateValue(argValue, alts[i], argPath, <<>>)
ProbesReturn(alts) == \A i \in 1..Len(alts) : Probe(alts, i).ok
Matching(alts) == {i \in 1..Len(alts) : Probe(alts, i).errors = <<>>}

\* C2: a node with oneOf (and no $ref) appends exactly one violation, at the
\* node's path, when the number of alternatives that validate the value with
\* no violation is not exactly 1 (none, two or more, or an empty list), and
\* appends nothing when exactly one alternative matches. An alternative whose
\* probe raises has no count: the exception leaves the call (see C9).
C2_OneOfExactlyOne ==
    (Called /\ Checked(argSchema) /\ argSchema.oneOf # <<>>
       /\ ProbesReturn(argSchema.oneOf[1]))
    => /\ Outcome.ok
       /\ KeepsCallerList
       /\ Appended = IF Cardinality(Matching(argSchema.oneOf[1])) = 1
                     THEN <<>>
                     ELSE <<Violation(argPath, MsgOneOf, argValue)>>

C2_Witness ==
    /\ Called /\ Checked(argSchema) /\ argSchema.oneOf # <<>>
    /\ ProbesReturn(argSchema.oneOf[1])
    /\ Cardinality(Matching(argSchema.oneOf[1])) = 2
    /\ argPath = "theme"
    /\ Outcome = Ok(<<PriorViolation, Violation("theme", MsgOneOf, argValue)>>)

\* C3: a node with anyOf and without oneOf or $ref appends exactly one
\* violation, at the node's path, when no alternative validates the value
\* with no violation, and appends nothing when at least one does. The
\* alternatives are probed in order up to the first match; a probe that
\* raises before it leaves the call with the exception (see C9).
C3_AnyOfAtLeastOne ==
    (Called /\ Checked(argSchema) /\ argSchema.oneOf = <<>>
       /\ argSchema.anyOf # <<>> /\ ProbesReturn(argSchema.anyOf[1]))
    => /\ Outcome.ok
       /\ KeepsCallerList
       /\ Appended = IF Matching(argSchema.anyOf[1]) # {}
                     THEN <<>>
                     ELSE <<Violation(argPath, MsgAnyOf, argValue)>>

C3_Witness ==
    /\ Called /\ Checked(argSchema) /\ argSchema.oneOf = <<>>
    /\ argSchema.anyOf # <<>> /\ Len(argSchema.anyOf[1]) = 2
    /\ ProbesReturn(argSchema.anyOf[1])
    /\ Matching(argSchema.anyOf[1]) = {}
    /\ argPath = "theme"
    /\ Outcome = Ok(<<PriorViolation, Violation("theme", MsgAnyOf, argValue)>>)

\* C4: a node whose $ref is set appends no violation for any value, whatever
\* other keys (type, enum, oneOf, anyOf, required, properties, items) it
\* carries.
C4_RefBypass ==
    (Called /\ argSchema.shape = "mapping" /\ RefIsSet(argSchema))
    => Outcome = Ok(argErrors)

\* a reference next to type "string", tried on a number
C4_Witness ==
    /\ Called /\ RefIsSet(argSchema)
    /\ argSchema.type = SingleType("string")
    /\ argValue = JNum(-2)
    /\ argErrors # <<>>
    /\ Outcome = Ok(argErrors)

\* the node declares type "string" (one tag) and the value is not a string
StringTypeOnNonString ==
    /\ Called /\ argSchema.shape = "mapping"
    /\ argSchema.type = SingleType("string")
    /\ argValue.kind # "string"

\* C5 as stated: for every node with type "string" and every value whose
\* classified type is not string, exactly one violation is appended, at the
\* node's own path.
C5_AsStated ==
    StringTypeOnNonString
    => /\ Outcome.ok
       /\ KeepsCallerList
       /\ Len(Appended) = 1
       /\ Appended[1].path = argPath

\* C5, amended: for every node with type "string" and no $ref, oneOf or
\* anyOf, and every value whose classified type is not string, exactly one
\* violation is appended, the type violation at the node's own path, and
\* nothing at a path beneath it.
C5_TypeMismatchStops ==
    (StringTypeOnNonString /\ ~RefIsSet(argSchema)
       /\ argSchema.oneOf = <<>> /\ argSchema.anyOf = <<>>)
    => /\ Outcome.ok
       /\ KeepsCallerList
       /\ Appended = <<Violation(argPath, MsgType, argValue)>>

\* an object under a node that also declares required, properties and a
\* minimum: only the type violation is appended
C5_Witness ==
    /\ Called
    /\ argSchema = StructuredStringNode
    /\ argValue = JObj(<<Field("id", JStr("a"))>>)
    /\ argPath = "theme"
    /\ Outcome = Ok(<<PriorViolation, Violation("theme", MsgType, argValue)>>)

\* the path of key k under the node's path, as C6 states it
KeyPathAsStated(k) == IF argPath = "" THEN k ELSE argPath \o "." \o k

\* a required key was removed from an object that validated against an
\* object schema (type "object") with no violation
RequiredKeyRemoved ==
    /\ removed # <<>>
    /\ argSchema.type = SingleType("object")

OneRequiredViolation ==
    /\ Outcome.ok
    /\ KeepsCallerList
    /\ Len(Appended) = 1
    /\ Appended[1].path = KeyPathAsStated(removed[1])
    /\ Appended[1].message = MsgRequired
    /\ "value" \notin DOMAIN Appended[1]

KeyStep(k) == [step |-> "key", key |-> k]
IndexStep(i) == [step |-> "index", index |-> i]
ModelKeys == {"id", "count", "colors", "meta"}

\* the address of a location under the path `base`: "" at the root, a key
\* appended with "." (no dot when the parent's address is empty), an element
\* appended as "[i]"
RECURSIVE AddressOf(_, _)
AddressOf(base, steps) ==
    IF steps = <<>> THEN base
    ELSE LET parent == AddressOf(base, SubSeq(steps, 1, Len(steps) - 1))
             last == steps[Len(steps)]
         IN IF last.step = "key"
            THEN (IF parent = "" THEN last.key ELSE parent \o "." \o last.key)
            ELSE parent \o "[" \o ToString(last.index) \o "]"

\* every location of v: v itself, the keys of an object (present or missing)
\* and the elements of an array, recursively
RECURSIVE LocationsOf(_)
LocationsOf(v) ==
    {<<>>}
    \cup (IF v.kind = "object"
          THEN UNION {IF HasKey(v, k)
                      THEN {<<KeyStep(k)>> \o s : s \in LocationsOf(Get(v, k))}
                      ELSE {<<KeyStep(k)>>} : k \in ModelKeys}
          ELSE {})
    \cup (IF v.kind = "array"
          THEN UNION {{<<IndexStep(i - 1)>> \o s : s \in LocationsOf(v.elems[i])} :
                        i \in 1..Len(v.elems)}
          ELSE {})

\* what a location holds: <<the value there>>, or <<>> for a missing key
RECURSIVE ValueAt(_, _)
ValueAt(v, steps) ==
    IF steps = <<>> THEN <<v>>
    ELSE IF steps[1].step = "key"
    THEN (IF v.kind = "object" /\ HasKey(v, steps[1].key)
          THEN ValueAt(Get(v, steps[1].key), Tail(steps))
          ELSE <<>>)
    ELSE ValueAt(v.elems[steps[1].index + 1], Tail(steps))

\* violation e is reported at the address of a location of the value that
\* holds what e reports: the offending value, or nothing for a missing field
AtOffendingLocation(e) ==
    \E s \in LocationsOf(argValue) :
        /\ e.path = AddressOf(argPath, s)
        /\ ValueAt(argValue, s) = (IF "value" \in DOMAIN e THEN <<e.value>> ELSE <<>>)

\* root property colors: an array of strings
ColorsNode ==
    [EmptyNode EXCEPT !.type = SingleType("object"),
                      !.properties = <<<<Prop("colors",
                          [EmptyNode EXCEPT !.type = SingleType("array"),
                                            !.items = <<StringNode>>])>>>>]
ColorsValue ==
    JObj(<<Field("colors", JArr(<<JStr("a"), JStr("a"), JObj(<<>>)>>))>>)

\* C7: every violation's path is the address of the offending location
\* relative to the validation root: "" for the root, a property key appended
\* with "." (no leading dot when the parent path is empty), an array element
\* appended as "[i]" with its zero-based index; element 2 of root property
\* colors is reported at "colors[2]".
C7_PathIsAddress ==
    (outcome # <<>> /\ Outcome.ok)
    => /\ KeepsCallerList
       /\ \A i \in 1..Len(Appended) : AtOffendingLocation(Appended[i])
       /\ (argSchema = ColorsNode /\ argValue = ColorsValue /\ argPath = "")
          => Outcome.errors = <<Violation("colors[2]", MsgType, JObj(<<>>))>>

C7_Witness ==
    /\ Called
    /\ argSchema = ColorsNode /\ argValue = ColorsValue /\ argPath = ""
    /\ Outcome.ok
    /\ Len(Outcome.errors) = 1
    /\ Outcome.errors[1].path = "colors[2]"

\* The place of a violation in the check order of the node the call is about:
\* <<1, c>> for the node's own check c (type 1, enum 2, pattern 3, minimum 4,
\* maximum 5, minLength 6, maxLength 7), <<2, i>> for the i-th required name,
\* <<3, i>> for the subtree of the i-th declared property, <<4, i>> for the
\* subtree of element i.
OwnCheck(msg) ==
    CASE msg = MsgType -> 1
      [] msg = MsgEnum -> 2
      [] msg = MsgPattern -> 3
      [] msg = MsgMinimum -> 4
      [] msg = MsgMaximum -> 5
      [] msg = MsgMinLength -> 6
      [] msg = MsgMaxLength -> 7
      [] OTHER -> 0

UnderKey(e, k) ==
    /\ HasKey(argValue, k)
    /\ \E s \in LocationsOf(Get(argValue, k)) :
          e.path = AddressOf(argPath, <<KeyStep(k)>> \o s)

UnderElement(e, i) ==
    \E s \in LocationsOf(argValue.elems[i]) :
        e.path = AddressOf(argPath, <<IndexStep(i - 1)>> \o s)

IsMissingRequired(e, i) ==
    /\ e.message = MsgRequired
    /\ "value" \notin DOMAIN e
    /\ ~HasKey(argValue, argSchema.required[1][i])
    /\ e.path = AddressOf(argPath, <<KeyStep(argSchema.required[1][i])>>)

Place(e) ==
    IF e.path = argPath THEN <<1, OwnCheck(e.message)>>
    ELSE IF /\ argValue.kind = "object" /\ argSchema.required # <<>>
            /\ \E i \in 1..Len(argSchema.required[1]) : IsMissingRequired(e, i)
    THEN <<2, CHOOSE i \in 1..Len(argSchema.required[1]) : IsMissingRequired(e, i)>>
    ELSE IF /\ argValue.kind = "object" /\ argSchema.properties # <<>>
            /\ \E i \in 1..Len(argSchema.properties[1]) :
                  UnderKey(e, argSchema.properties[1][i].key)
    THEN <<3, CHOOSE i \in 1..Len(argSchema.properties[1]) :
                  UnderKey(e, argSchema.properties[1][i].key)>>
    ELSE IF argValue.kind = "array" /\ \E i \in 1..Len(argValue.elems) : UnderElement(e, i)
    THEN <<4, CHOOSE i \in 1..Len(argValue.elems) : UnderElement(e, i)>>
    ELSE <<0, 0>>

\* a precedes b in the check order; the own checks and the required names
\* are reported at most once each
Precedes(a, b) ==
    \/ a[1] < b[1]
    \/ a[1] = b[1] /\ a[2] < b[2]
    \/ a[1] = b[1] /\ a[2] = b[2] /\ a[1] \in {3, 4}

C9_NeverThrows == outcome # <<>> => Outcome.ok

\* the tags the node declares, as a set
DeclaredTags(node) ==
    IF node.type = <<>> THEN {}
    ELSE {node.type[1].tags[i] : i \in 1..Len(node.type[1].tags)}

\* the node has no $ref, oneOf or anyOf, so its own checks run
OwnChecksRun(node) ==
    Checked(node) /\ node.oneOf = <<>> /\ node.anyOf = <<>>

\* every violation of validating v on its own against node at path p is
\* among the violations the call appended
ValidatedAt(v, node, p) ==
    LET sub == validateValue(v, node, p, <<>>)
    IN sub.ok => \A i \in 1..Len(sub.errors) :
                    \E j \in 1..Len(Appended) : Appended[j] = sub.errors[i]

\* every missing name of the node's required list is reported and every
\* present declared property is validated
ObjectDescended ==
    /\ argSchema.required # <<>> =>
          \A i \in 1..Len(argSchema.required[1]) :
             LET k == argSchema.required[1][i]
             IN ~HasKey(argValue, k) =>
                   \E j \in 1..Len(Appended) :
                      Appended[j] = ViolationNoValue(KeyPathAsStated(k), MsgRequired)
    /\ argSchema.properties # <<>> =>
          \A i \in 1..Len(argSchema.properties[1]) :
             LET prop == argSchema.properties[1][i]
             IN (HasKey(argValue, prop.key) /\ prop.node.shape = "mapping") =>
                   ValidatedAt(Get(argValue, prop.key), prop.node,
                               KeyPathAsStated(prop.key))

\* every element is validated against items
ArrayDescended ==
    (argSchema.items # <<>> /\ argSchema.items[1].shape = "mapping") =>
        \A i \in 1..Len(argValue.elems) :
           ValidatedAt(argValue.elems[i], argSchema.items[1],
                       argPath \o "[" \o ToString(i - 1) \o "]")

\* C14: on a node whose own checks run, an object value and a declared type
\* that includes "object" (as the single tag or within a list of tags) give
\* the report of every missing required name and the validation of every
\* present declared property; an array value and a declared type that
\* includes "array" give the validation of every element against items.
C14_DescentOnTypeSets ==
    (Called /\ OwnChecksRun(argSchema) /\ Outcome.ok) =>
        /\ (argValue.kind = "object" /\ "object" \in DeclaredTags(argSchema))
              => ObjectDescended
        /\ (argValue.kind = "array" /\ "array" \in DeclaredTags(argSchema))
              => ArrayDescended

\* the seven type tags of a schema
SevenTags ==
    {"null", "array", "integer", "number", "string", "boolean", "object"}

\* the value is JSON data
IsJson(v) ==
    v.kind \in {"null", "boolean", "number", "string", "array", "object"}

\* the tag as the classifier is described: null, array, integer for an
\* integral number, number for any other number, else the primitive kind
Classified(v) ==
    IF v.kind = "null" THEN "null"
    ELSE IF v.kind = "array" THEN "array"
    ELSE IF v.kind = "number" THEN (IF v.twice % 2 = 0 THEN "integer" ELSE "number")
    ELSE v.kind

\* C15 as stated: the classifier's result for every runtime value is the
\* described tag and is one of the seven tags.
C15_AsStated ==
    actualType # <<>> => (actualType[1] = Classified(argValue) /\ actualType[1] \in SevenTags)

\* C15 (amended): the classifier's result is a function of the value alone;
\* for every JSON value it is the described tag and one of the seven tags;
\* for a value that is no JSON data it is the typeof name, which is none of
\* the seven (undefined gives "undefined").
C15_ClassifierOnJson ==
    actualType # <<>> =>
        /\ actualType[1] = Classified(argValue)
        /\ IsJson(argValue) <=> actualType[1] \in SevenTags
        /\ argValue = JUndefined => actualType[1] = "undefined"

\* an integral number inside the universe was classified
C15_Witness ==
    /\ actualType = <<"integer">>
    /\ argValue = JNum(4)

\* the node declares a type: a list of tags or a non-empty single tag (the
\* code tests the truthiness of type, so an empty string declares nothing)
TypeDeclared(node) ==
    /\ node.type # <<>>
    /\ (node.type[1].isArray \/ node.type[1].tags[1] # "")

\* the call appended a type violation at the node's own path
TypeViolationAtNode ==
    \E i \in 1..Len(Appended) :
       Appended[i].path = argPath /\ Appended[i].message = MsgType

\* the call appended the type violation of the node and nothing else
RejectedByType ==
    Outcome = Ok(Append(argErrors, Violation(argPath, MsgType, argValue)))

\* the type check passes exactly when the classified tag is a declared tag
TypeCheckIsMembership ==
    IF Classified(argValue) \in DeclaredTags(argSchema)
    THEN Outcome.ok => ~TypeViolationAtNode
    ELSE RejectedByType

\* C16 as stated: on every node that declares a type the type check passes
\* exactly when the classified tag is among the declared tags, so "number"
\* without "integer" rejects the integral numbers and "integer" alone
\* rejects the other numbers.
C16_AsStated ==
    (Called /\ argSchema.shape = "mapping" /\ TypeDeclared(argSchema))
    => TypeCheckIsMembership

\* C16 (amended): the same on a node that declares a type and has no $ref,
\* oneOf or anyOf.
C16_TypeCheckIsMembership ==
    (Called /\ OwnChecksRun(argSchema) /\ TypeDeclared(argSchema))
    => TypeCheckIsMembership

\* the integral number 2 is rejected by type "number"
C16_Witness ==
    /\ Called
    /\ argSchema.type = SingleType("number")
    /\ OwnChecksRun(argSchema)
    /\ argValue = JNum(4)
    /\ RejectedByType


\* the node without its allOf
WithoutAllOf(node) == [node EXCEPT !.allOf = <<>>]

\* C22: allOf is never evaluated: the outcome of validating a value against
\* a node is the outcome against the same node with its allOf removed, so
\* adding, removing or changing allOf changes no violation, and a node whose
\* only constraint is allOf accepts every value.
C22_AllOfIgnored ==
    (Called /\ argSchema.shape = "mapping")
    => /\ Outcome = validateValue(argValue, WithoutAllOf(argSchema), argPath,
                                  argErrors)
       /\ WithoutAllOf(argSchema) = EmptyNode => Outcome = Ok(argErrors)

\* a node with nothing but an allOf whose member would reject the value
C22_Witness ==
    /\ Called
    /\ argSchema = [EmptyNode EXCEPT !.allOf = <<<<CountNode, StringNode>>>>]
    /\ argValue = JStr("a")
    /\ validateValue(argValue, CountNode, argPath, <<>>).errors # <<>>
    /\ Outcome = Ok(argErrors)


\* the node reduced to the combinator that is evaluated: oneOf when it is
\* present, anyOf otherwise
CombinatorOnly(node) ==
    IF node.oneOf # <<>> THEN [EmptyNode EXCEPT !.oneOf = node.oneOf]
    ELSE [EmptyNode EXCEPT !.anyOf = node.anyOf]

\* the message of the combinator that is evaluated
CombinatorMessage(node) == IF node.oneOf # <<>> THEN MsgOneOf ELSE MsgAnyOf

\* C23: a node that carries oneOf or anyOf contributes at most one violation,
\* located at the node's own path: the caller's list is kept and no violation
\* of a probe reaches it; when the node's $ref is not set the outcome is the
\* outcome against the node reduced to its combinator, so none of the type,
\* enum, pattern, range, length, required, properties and items checks of the
\* node run, and when both are present only oneOf is evaluated.
C23_CombinatorAlone ==
    (Called /\ argSchema.shape = "mapping"
       /\ (argSchema.oneOf # <<>> \/ argSchema.anyOf # <<>>))
    => /\ Checked(argSchema) =>
             Outcome = validateValue(argValue, CombinatorOnly(argSchema),
                                     argPath, argErrors)
       /\ Outcome.ok =>
             /\ KeepsCallerList
             /\ Len(Appended) <= 1
             /\ \A i \in 1..Len(Appended) :
                   Appended[i] = Violation(argPath, CombinatorMessage(argSchema),
                                           argValue)

\* oneOf and anyOf on one node that requires id of an object: no alternative
\* of oneOf matches, anyOf would accept, and the only violation is oneOf's
C23_Witness ==
    /\ Called
    /\ argSchema.oneOf = <<<<StringNode>>>>
    /\ argSchema.anyOf = <<<<EmptyNode>>>>
    /\ argSchema.required = <<<<"id">>>>
    /\ argValue = ExampleValue
    /\ Probe(argSchema.oneOf[1], 1).errors # <<>>
    /\ Appended = <<Violation(argPath, MsgOneOf, argValue)>>


\* the outcome of validating declared property i of the object on its own
PropertyAlone(i) ==
    LET prop == argSchema.properties[1][i]
    IN validateValue(Get(argValue, prop.key), prop.node,
                     PropertyPath(argPath, prop.key), <<>>)

\* the declared properties that are present and violate their schema
OffendingProperties ==
    {i \in 1..Len(argSchema.properties[1]) :
        /\ HasKey(argValue, argSchema.properties[1][i].key)
        /\ argSchema.properties[1][i].node.shape = "mapping"
        /\ PropertyAlone(i).ok
        /\ PropertyAlone(i).errors # <<>>}

\* the outcome of validating element i of the array on its own
ElementAlone(i) ==
    validateValue(argValue.elems[i], argSchema.items[1],
                  ItemPath(argPath, i - 1), <<>>)

\* the elements that violate the items schema
OffendingElements ==
    {i \in 1..Len(argValue.elems) :
        ElementAlone(i).ok /\ ElementAlone(i).errors # <<>>}

\* C24: one pass reports every violation: on a node without $ref, oneOf and
\* anyOf whose declared type admits the value, an object with k declared
\* properties that each violate their schema yields at least k violations,
\* one for each offending property, and an array with k elements that each
\* violate the items schema yields at least k, one for each offending
\* element.
C24_EveryViolationReported ==
    (Called /\ OwnChecksRun(argSchema) /\ Outcome.ok) =>
        /\ (/\ argValue.kind = "object"
            /\ "object" \in DeclaredTags(argSchema)
            /\ argSchema.properties # <<>>)
              => /\ Len(Appended) >= Cardinality(OffendingProperties)
                 /\ \A i \in OffendingProperties :
                       \E j \in 1..Len(Appended) :
                          Appended[j] = PropertyAlone(i).errors[1]
        /\ (/\ argValue.kind = "array"
            /\ "array" \in DeclaredTags(argSchema)
            /\ argSchema.items # <<>>
            /\ argSchema.items[1].shape = "mapping")
              => /\ Len(Appended) >= Cardinality(OffendingElements)
                 /\ \A i \in OffendingElements :
                       \E j \in 1..Len(Appended) :
                          Appended[j] = ElementAlone(i).errors[1]


\* the node's own checks run and its type check does not fail
PastTypeCheck ==
    Called /\ OwnChecksRun(argSchema) /\ ~TypeMismatch(argValue, argSchema)

\* the number of appended violations at the node's own path with message msg
OwnCount(msg) ==
    Len(SelectSeq(Appended, LAMBDA e : e.path = argPath /\ e.message = msg))

\* C26: for a numeric value that passed the node's type check (or a node
\* with no declared type) the call appends one violation when minimum is
\* present and value < minimum and, independently, one when maximum is
\* present and value > maximum, and no other range violation: both fire when
\* minimum > value > maximum, a bound of 0 is enforced, a value equal to a
\* bound is accepted, and a value that is not a number never produces a range
\* violation.
C26_RangeChecks ==
    (PastTypeCheck /\ Outcome.ok)
    => /\ OwnCount(MsgMinimum) =
             IF /\ argValue.kind = "number"
                /\ argSchema.minimum # <<>>
                /\ argValue.twice < argSchema.minimum[1]
             THEN 1 ELSE 0
       /\ OwnCount(MsgMaximum) =
             IF /\ argValue.kind = "number"
                /\ argSchema.maximum # <<>>
                /\ argValue.twice > argSchema.maximum[1]
             THEN 1 ELSE 0

\* 0.5 against minimum 1 and maximum 0: both violations
C26_Witness ==
    /\ PastTypeCheck
    /\ argSchema.minimum = <<2>>
    /\ argSchema.maximum = <<0>>
    /\ argValue = JNum(1)
    /\ Appended = <<Violation(argPath, MsgMinimum, argValue),
                    Violation(argPath, MsgMaximum, argValue)>>


\* the node without its enum
WithoutEnum(node) == [node EXCEPT !.enum = <<>>]

\* the value is equal to a listed literal: a primitive equal to it (an object
\* or an array is equal to no literal)
EqualsALiteral ==
    /\ argValue.kind \notin {"object", "array"}
    /\ \E i \in 1..Len(argSchema.enum[1]) : argSchema.enum[1][i] = argValue

\* what the call appends for the enum
EnumPart ==
    IF EqualsALiteral THEN <<>> ELSE <<Violation(argPath, MsgEnum, argValue)>>

\* C27: on a node with enum and no $ref, oneOf or anyOf whose type check did
\* not fail, the call appends exactly one enum violation if and only if the
\* value is not equal to any listed literal, whether or not type is declared;
\* an object or array value violates every enum; and the later checks still
\* run after an enum violation: what follows the enum's part is what the node
\* without its enum appends.
C27_EnumCheck ==
    (PastTypeCheck /\ argSchema.enum # <<>>)
    => LET bare == validateValue(argValue, WithoutEnum(argSchema), argPath,
                                 argErrors)
       IN /\ Outcome.ok = bare.ok
          /\ Outcome.ok =>
                /\ OwnCount(MsgEnum) = IF EqualsALiteral THEN 0 ELSE 1
                /\ Outcome.errors =
                      argErrors \o EnumPart
                      \o SubSeq(bare.errors, Len(argErrors) + 1, Len(bare.errors))

\* an object against an enum that lists an equal object: the enum violation
\* and, after it, the violation of the required check
C27_Witness ==
    /\ PastTypeCheck
    /\ argValue = JObj(<<>>)
    /\ argSchema.enum = <<<<JObj(<<>>), JArr(<<>>), JStr("a")>>>>
    /\ argSchema.type = SingleType("object")
    /\ Appended = <<Violation(argPath, MsgEnum, argValue),
                    ViolationNoValue(PropertyPath(argPath, "id"), MsgRequired)>>


\* the call descends into the object: the node is past its type check, its
\* type is "object" and the value is an object
InObjectDescent ==
    /\ PastTypeCheck
    /\ TypeIs(argSchema, "object")
    /\ argValue.kind = "object"

\* violation e comes from a required name that is absent from the value
FromMissingRequired(e) ==
    /\ argSchema.required # <<>>
    /\ \E i \in 1..Len(argSchema.required[1]) :
          /\ ~HasKey(argValue, argSchema.required[1][i])
          /\ e = ViolationNoValue(PropertyPath(argPath, argSchema.required[1][i]),
                                  MsgRequired)

\* violation e comes from validating a property that is declared and present
FromDeclaredPresent(e) ==
    /\ argSchema.properties # <<>>
    /\ \E i \in 1..Len(argSchema.properties[1]) :
          /\ HasKey(argValue, argSchema.properties[1][i].key)
          /\ \E j \in 1..Len(PropertyAlone(i).errors) :
                e = PropertyAlone(i).errors[j]

\* the node without its additionalProperties
WithoutAdditional(node) == [node EXCEPT !.additionalProperties = <<>>]

----------------------------------------------------------------------------
(* Claims about generateFromSchema, checked under SpecTemplate.            *)

\* the value conforms to the type the node declares
OfDeclaredType(v, node) ==
    TypeDeclared(node) => Classified(v) \in DeclaredTags(node)

RECURSIVE WellFormedTree(_)
\* every node of the tree is a mapping whose default and enum members are
\* literals of the type it declares
WellFormedTree(node) ==
    /\ node.shape = "mapping"
    /\ node.default # <<>> => OfDeclaredType(node.default[1], node)
    /\ node.enum # <<>> =>
          \A i \in 1..Len(node.enum[1]) : OfDeclaredType(node.enum[1][i], node)
    /\ node.properties # <<>> =>
          \A i \in 1..Len(node.properties[1]) :
             WellFormedTree(node.properties[1][i].node)

\* every node of the tree is a mapping
RECURSIVE AllMappings(_)
AllMappings(node) ==
    /\ node.shape = "mapping"
    /\ node.properties # <<>> =>
          \A i \in 1..Len(node.properties[1]) :
             AllMappings(node.properties[1][i].node)

\* the template was validated against the schema it was made from
TemplateValidated == template # <<>> /\ template[1].ok /\ outcome # <<>>

\* the node has type "object" and properties
ObjectWithProperties(node) ==
    node.type = SingleType("object") /\ node.properties # <<>>

\* C17: for a well-formed schema tree, validating the synthesized template
\* against the tree returns and reports no type-mismatch violation at any
\* path. The trees taken here are those the synthesizer fills in: type
\* "object" with properties.
C17_TemplateHasDeclaredTypes ==
    (TemplateValidated /\ WellFormedTree(argSchema)
       /\ ObjectWithProperties(argSchema)) =>
        /\ Outcome.ok
        /\ \A i \in 1..Len(Outcome.errors) : Outcome.errors[i].message # MsgType

RECURSIVE StatedTemplate(_)
\* the value of one property as the synthesis is described: the first
\* applicable of default, first enum member, "" for string, minimum or 0 for
\* number and integer, false for boolean, an empty sequence for array, the
\* template of the property for object, else null
StatedValue(node) ==
    IF node.default # <<>> THEN node.default[1]
    ELSE IF node.enum # <<>> /\ node.enum[1] # <<>> THEN node.enum[1][1]
    ELSE IF node.type = SingleType("string") THEN JStr("")
    ELSE IF node.type = SingleType("number") \/ node.type = SingleType("integer")
    THEN JNum(IF node.minimum # <<>> THEN node.minimum[1] ELSE 0)
    ELSE IF node.type = SingleType("boolean") THEN JBool(FALSE)
    ELSE IF node.type = SingleType("array") THEN JArr(<<>>)
    ELSE IF node.type = SingleType("object") THEN StatedTemplate(node)
    ELSE JNull

\* the template as the synthesis is described
StatedTemplate(node) ==
    IF node.type = SingleType("array") THEN JArr(<<>>)
    ELSE IF node.type # SingleType("object") \/ node.properties = <<>>
    THEN JObj(<<>>)
    ELSE JObj([i \in 1..Len(node.properties[1]) |->
                  Field(node.properties[1][i].key,
                        StatedValue(node.properties[1][i].node))])

FiveSchema ==
    [EmptyNode EXCEPT !.type = SingleType("object"),
                      !.properties = <<<<Prop("n", FiveNode)>>>>]

\* C19: for every well-formed schema tree the synthesis returns, and what it
\* returns is a function of the tree: an empty sequence for type "array", an
\* empty mapping for a tree that is not of type "object" or has no
\* properties, and {n: 5} for the tree of the example.
C19_TemplateTotal ==
    (template # <<>> /\ AllMappings(argSchema)) =>
        /\ template[1].ok
        /\ template[1].value = StatedTemplate(argSchema)
        /\ argSchema.type = SingleType("array") => template[1].value = JArr(<<>>)
        /\ (argSchema.type # SingleType("array")
              /\ (argSchema.type # SingleType("object") \/ argSchema.properties = <<>>))
           => template[1].value = JObj(<<>>)
        /\ argSchema = FiveSchema =>
              template[1].value = JObj(<<Field("n", JNum(10))>>)

\* the example was synthesized
C19_Witness ==
    /\ argSchema = FiveSchema
    /\ template = <<Return(JObj(<<Field("n", JNum(10))>>))>>

----------------------------------------------------------------------------
(* Claims about validate and validateFile, checked under Spec.             *)

Returned == result # <<>> /\ result[1].ok
IsValidation == call.op \in {"validate", "validateFile"}

\* C1: the result returned by validate and by validateFile has valid = true
\* if and only if its errors sequence is empty.
C1_ValidIffNoErrors ==
    (IsValidation /\ Returned)
    => (result[1].value.valid <=> result[1].value.errors = <<>>)

\* validate returned a result with two violations and valid = false
C1_Witness ==
    /\ call.op = "validate" /\ Returned
    /\ Len(result[1].value.errors) = 2
    /\ result[1].value.valid = FALSE

\* the data file cannot be read as JSON: it is missing or undecodable
DataUnreadable ==
    ~files[call.filePath].exists \/ files[call.filePath].json = <<>>

\* C10: validateFile always returns a Validation Result and never raises,
\* whatever the state of the data file (missing, undecodable, well-formed)
\* and of the schema resource; when the data file is missing or undecodable
\* the result has valid = false and exactly one violation, with path "".
C10_ValidateFileTotal ==
    call.op = "validateFile"
    => /\ Returned
       /\ DOMAIN result[1].value = {"valid", "errors"}
       /\ DataUnreadable
          => /\ result[1].value.valid = FALSE
             /\ Len(result[1].value.errors) = 1
             /\ result[1].value.errors[1].path = ""

\* the data file is well-formed and the schema resource is missing: the call
\* still returns a result
C10_Witness ==
    /\ call.op = "validateFile"
    /\ files[call.filePath] = Holding(ValidExampleValue)
    /\ ~files[FullPath(call.schemaPath)].exists
    /\ schemaCache[call.maker][FullPath(call.schemaPath)] = <<>>
    /\ Returned
    /\ result[1].value.valid = FALSE

----------------------------------------------------------------------------
(* Claims about the schema cache, checked under Spec.                      *)

\* the step is a loadSchema of resolved path p on instance m
LoadStep(m, p) ==
    /\ call'.op = "loadSchema"
    /\ call'.maker = m
    /\ FullPath(call'.schemaPath) = p

\* what reading and decoding the resource at p gives
FromResource(p) ==
    IF ~files[p].exists THEN Throw("Error: Schema file not found")
    ELSE IF files[p].json = <<>> THEN Throw("SyntaxError")
    ELSE Return(files[p].json[1])

\* C11: once a path is in an instance's cache, the entry is never replaced or
\* removed by any step, and every loadSchema of that path on that instance
\* returns the cached tree itself without any call on the file system,
\* whatever the resource has become since.
C11_CachedTreeStable ==
    [][\A m \in Makers : \A p \in SchemaFiles :
          schemaCache[m][p] # <<>> =>
              /\ schemaCache'[m][p] = schemaCache[m][p]
              /\ LoadStep(m, p) =>
                    /\ result' = <<Return(schemaCache[m][p][1])>>
                    /\ call'.fsCalls = <<>>]_vars

\* a load answered from the cache after the resource was modified or deleted
C11_Witness ==
    /\ call.op = "loadSchema"
    /\ call.fsCalls = <<>>
    /\ result[1].ok
    /\ files[FullPath(call.schemaPath)] # Holding(result[1].value)

C13_LoadFailureLeavesCache ==
    [][\A m \in Makers : \A p \in SchemaFiles :
          (LoadStep(m, p) /\ schemaCache[m][p] = <<>>) =>
              /\ result' = <<FromResource(p)>>
              /\ FromResource(p).ok =>
                    schemaCache' = [schemaCache EXCEPT
                                       ![m][p] = <<FromResource(p).value>>]
              /\ ~FromResource(p).ok => schemaCache' = schemaCache]_vars

\* a failed load that left the instance's cache without an entry
C13_Witness ==
    /\ call.op = "loadSchema"
    /\ ~result[1].ok
    /\ schemaCache[call.maker][FullPath(call.schemaPath)] = <<>>

----------------------------------------------------------------------------
(* Claims about createValidatedJson, checked under Spec.                   *)

\* the calls of the step that write to the file system
WritesOf(calls) == SelectSeq(calls, LAMBDA c : c.fn = "writeFileSync")

\* C20: a call of createValidatedJson whose validation returns gives back
\* that validation result; when the result has no violation the call writes
\* the data to the output path, and when it has one the call makes no write
\* and leaves every file as it was, the output path included (a missing
\* output file stays missing). The file is written exactly in the first
\* case.
C20_WritesIffValid ==
    [][call'.op = "createValidatedJson" =>
          LET validation == validate(CacheOf(call'.maker), files, call'.data,
                                     call'.schemaPath).ret
              out == call'.outputPath
          IN /\ validation.ok => result' = <<validation>>
             /\ (validation.ok /\ validation.value.errors = <<>>) =>
                   /\ WritesOf(call'.fsCalls) = <<WriteFileSync(out)>>
                   /\ files' = [files EXCEPT ![out] = Holding(JsonText(call'.data))]
             /\ ~(validation.ok /\ validation.value.errors = <<>>) =>
                   /\ WritesOf(call'.fsCalls) = <<>>
                   /\ files' = files]_vars

\* validation failed, the result came back and no output file was created
C20_Witness ==
    /\ call.op = "createValidatedJson"
    /\ result[1].ok
    /\ ~result[1].value.valid
    /\ result[1].value.errors # <<>>
    /\ WritesOf(call.fsCalls) = <<>>
    /\ ~files[call.outputPath].exists

(* Claims about the failure to load a schema, checked under Spec.          *)

\* the last call was op on a schema that its instance could not load: the
\* path is not in the instance's cache and the resource is missing or not
\* decodable (the call changes neither)
LoadFailedIn(op) ==
    /\ call.op = op
    /\ schemaCache[call.maker][FullPath(call.schemaPath)] = <<>>
    /\ ~FromResource(FullPath(call.schemaPath)).ok

\* the operations other than validateFile signal the failure of the load as
\* the exception of the load
LoadFailureRaised ==
    \A op \in {"loadSchema", "validate", "generateTemplate", "getSchemaInfo"} :
        LoadFailedIn(op) =>
            result = <<FromResource(FullPath(call.schemaPath))>>

\* validateFile got as far as the schema: its data file exists and decodes
DataDecoded == files[call.filePath].exists /\ files[call.filePath].json # <<>>

\* C25 as stated: when the schema cannot be loaded, loadSchema, validate,
\* validateFile, generateTemplate and getSchemaInfo all end in an exception,
\* and the failure never becomes a Validation Result.
C25_AsStated ==
    /\ LoadFailureRaised
    /\ (LoadFailedIn("validateFile") /\ DataDecoded) => ~result[1].ok

\* C25: when the schema cannot be loaded, loadSchema, validate,
\* generateTemplate and getSchemaInfo end in the exception of the load and
\* return nothing; validateFile, once its data file is read and decoded,
\* catches the exception and returns a Validation Result with valid = false
\* and one violation with path "" and the parse-failure message.
C25_LoadFailurePropagation ==
    /\ LoadFailureRaised
    /\ (LoadFailedIn("validateFile") /\ DataDecoded) =>
          result = <<Return([valid |-> FALSE,
                             errors |-> <<ViolationNoValue("", MsgFailedToParse)>>])>>

\* validateFile on well-formed data and an undecodable schema returned the
\* failure of the load as a violation
C25_Witness ==
    /\ LoadFailedIn("validateFile")
    /\ files[FullPath(call.schemaPath)] = Undecodable
    /\ files[call.filePath] = Holding(ValidExampleValue)
    /\ Returned
    /\ result[1].value.errors = <<ViolationNoValue("", MsgFailedToParse)>>

(* Claims about the effects of validate, checked under Spec.               *)

RepositoryInit ==
    /\ PureIdle
    /\ files \in {f \in [Paths -> UNION {RepositoryContentsOf(p) : p \in Paths}] :
                    \A p \in Paths : f[p] \in RepositoryContentsOf(p)}
    /\ schemaCache = [m \in Makers |-> [p \in SchemaFiles |-> <<>>]]
    /\ call = NoCall
    /\ result = <<>>
    /\ loading = <<>>

\* anything outside the program rewrites or deletes a file, also while a
\* loadFromFile is between its two reads
ExternalChange ==
    /\ UNCHANGED loading
    /\ \E p \in Paths : \E c \in RepositoryContentsOf(p) :
          /\ files[p] # c
          /\ files' = [files EXCEPT ![p] = c]
    /\ call' = [op |-> "externalWrite"]
    /\ result' = <<>>
    /\ UNCHANGED schemaCache
    /\ UNCHANGED pureVars

SaveToFile ==
    /\ loading = <<>>
    /\ UNCHANGED loading
    /\ \E m \in Repositories : \E data \in RepositoryData : \E f \in DataFiles :
          LET done == saveToFile(CacheOf(m), files, data, f)
          IN /\ schemaCache' = [schemaCache EXCEPT ![m] = done.cache]
             /\ files' = done.fs
             /\ result' = <<done.ret>>
             /\ call' = [op |-> "saveToFile", maker |-> m, data |-> data,
                         filePath |-> f, fsCalls |-> done.fsCalls]
    /\ UNCHANGED pureVars

\* loadFromFile up to the return of validateFile: an invalid file ends the
\* call with an error, a valid one leaves the call before its readData
LoadFromFileValidate ==
    /\ loading = <<>>
    /\ \E m \in Repositories : \E f \in DataFiles :
          LET done == validateFile(CacheOf(m), files, f, COLOR_SCHEMA)
          IN /\ schemaCache' = [schemaCache EXCEPT ![m] = done.cache]
             /\ IF done.ret.value.valid
                THEN /\ loading' = <<[maker |-> m, filePath |-> f,
                                      validated |-> files[f].json[1],
                                      fsCalls |-> done.fsCalls]>>
                     /\ result' = <<>>
                     /\ call' = [op |-> "loadFromFile.validateFile", maker |-> m,
                                 filePath |-> f, fsCalls |-> done.fsCalls]
                ELSE /\ loading' = <<>>
                     /\ result' = <<Throw("Error: Invalid color file")>>
                     /\ call' = [op |-> "loadFromFile", maker |-> m,
                                 filePath |-> f, validated |-> <<>>,
                                 fsCalls |-> done.fsCalls]
    /\ UNCHANGED files
    /\ UNCHANGED pureVars

\* data.map(colorData => new ColorModel(colorData)): the models hold the
\* elements as read; a value that is not an array has no map
modelsOf(read) ==
    IF ~read.ok THEN read
    ELSE IF read.value.kind = "array" THEN Return(read.value)
    ELSE Throw("TypeError")

\* loadFromFile from its readData to its return: the file is read again and
\* the models are built from what that read gives
LoadFromFileRead ==
    /\ loading # <<>>
    /\ LET done == readData(files, loading[1].filePath)
       IN /\ result' = <<modelsOf(done.ret)>>
          /\ call' = [op |-> "loadFromFile", maker |-> loading[1].maker,
                      filePath |-> loading[1].filePath,
                      validated |-> <<loading[1].validated>>,
                      fsCalls |-> loading[1].fsCalls \o done.fsCalls]
    /\ loading' = <<>>
    /\ UNCHANGED <<files, schemaCache>>
    /\ UNCHANGED pureVars

NextRepository ==
    \/ ExternalChange
    \/ SaveToFile
    \/ LoadFromFileValidate
    \/ LoadFromFileRead

SpecRepository == RepositoryInit /\ [][NextRepository]_vars

(* Claims about the repositories, checked under SpecRepository.           *)

\* C21: a repository's saveToFile whose validation of the record data yields
\* any violation raises an error, makes no write and leaves every file as it
\* was; it writes the file only after a validation with zero violations.
C21_SaveWritesOnlyValid ==
    [][call'.op = "saveToFile" =>
          LET validation == validate(CacheOf(call'.maker), files, call'.data,
                                     COLOR_SCHEMA).ret
              clean == validation.ok /\ validation.value.errors = <<>>
          IN /\ (validation.ok /\ validation.value.errors # <<>>) =>
                   /\ ~result'[1].ok
                   /\ WritesOf(call'.fsCalls) = <<>>
                   /\ files' = files
             /\ WritesOf(call'.fsCalls) # <<>> => clean
             /\ files' # files => clean]_vars

\* the data had a violation, the call raised and the file was not created
C21_Witness ==
    /\ call.op = "saveToFile"
    /\ result = <<Throw("Error: Invalid color data")>>
    /\ WritesOf(call.fsCalls) = <<>>
    /\ ~files[call.filePath].exists
    /\ validate(CacheOf(call.maker), files, call.data, COLOR_SCHEMA).ret.value.errors # <<>>

\* C30: the record data that loadFromFile returns is content that passed the
\* schema validation: it has no violation against the schema its instance
\* validated the file with, whatever happened to the file between the read
\* for the validation and the read for the returned data.
C30_ReturnedDataValidated ==
    (call.op = "loadFromFile" /\ Returned)
    => validateValue(result[1].value,
                     schemaCache[call.maker][FullPath(COLOR_SCHEMA)][1],
                     "", <<>>) = Ok(<<>>)

====
